---- MODULE Spec2Model ----
(***************************************************************************)
(* Verification model of the knowledge-graph front end:                    *)
(*   - the stream consumption loop of startGraphGeneration and the App     *)
(*     state it reduces events into (log, stage, graph payload),           *)
(*   - the line decoder inside that loop (TextDecoder + split + JSON.parse)*)
(*   - buildDisplayGraph, the graph simplifier.                            *)
(* Three specifications share the module: Spec (the App state machine),    *)
(* SpecDecoder (the decoder on bounded byte streams) and SpecGraph (the    *)
(* simplifier on bounded payloads).                                        *)
(***************************************************************************)
EXTENDS Integers, Sequences, FiniteSets, TLC

VARIABLES
  \* ---- App component state (useState hooks)
  selectedMajor, hasUploadedPlan, loading, currentStep, graphData,
  analysisReport, processLogs, isGraphReady, isAnalyzing,
  \* ---- asynchronous activities of the App
  runs,        \* one record per call of startGraphGeneration
  analyses,    \* number of generateReport calls awaiting their response
  \* ---- decoder harness (SpecDecoder)
  dStream, dPos, dPending, dBuffer, dEmitted, dDone, dSplit,
  \* ---- simplifier harness (SpecGraph)
  rawData, display, shown, extraE, extraR,
  \* ---- event harness (SpecEvents)
  handled,     \* the events the loop body has handled, each with the state it left
  \* ---- ProcessFlow (SpecFlow)
  tick,        \* the 1500 ms interval counter of ProcessFlow
  \* ---- GraphContainer (SpecLayout)
  containerData,  \* the reference of the data prop (0: no container)
  dimensions,     \* dimensions.width
  graphRef,       \* graphRef.current is set: the renderer is mounted
  stale,          \* a state update awaits its render
  applied         \* the graphs the force parameters were set for on this renderer

appVars == <<selectedMajor, hasUploadedPlan, loading, currentStep, graphData,
             analysisReport, processLogs, isGraphReady, isAnalyzing,
             runs, analyses>>
decVars == <<dStream, dPos, dPending, dBuffer, dEmitted, dDone, dSplit>>
graphVars == <<rawData, display, shown, extraE, extraR>>
evVars == <<handled>>
flowVars == <<tick>>
layoutVars == <<containerData, dimensions, graphRef, stale, applied>>
vars == <<appVars, decVars, graphVars, evVars, flowVars, layoutVars>>

\* ------------------------------------------------------------------ bounds
MaxRuns == 2        \* calls of startGraphGeneration in one behaviour
MaxChunkLen == 1    \* symbols delivered by one reader.read()
MaxBuffer == 1      \* symbols carried over between two reads
MaxLog == 2         \* entries of processLogs
MaxStreamLen == 5   \* bytes of a whole stream (SpecDecoder)
MaxJobs == 30       \* Job entities of a seed payload (SpecGraph)
MaxCompanies == 22  \* Company entities of a seed payload (SpecGraph)
DenseCores == 11    \* core entities of a dense seed payload (SpecGraph)
MaxExtraEntities == 1  \* entities added to a seed payload
MaxExtraRels == 1      \* relationships added to a seed payload

\* ------------------------------------------------------------------ values
NoVal == "none"     \* an absent (undefined) field, or null
Null == "null"

Ev(t, s, a, st, m, d) ==
  [event_type |-> t, step_id |-> s, agent_id |-> a, agent_status |-> st,
   message |-> m, data |-> d]

\* The JSON object texts the backend may send, one symbol per text, and the
\* object each parses to. step_id 0 stands for an absent (falsy) step_id.
ObjectTexts == {"oRun", "oQuiet", "oLog", "oTerm"}

JsonObject(tok) ==
  CASE tok = "oRun"   -> Ev("agent_status", 1, "src-1", "running", "m1", NoVal)
    [] tok = "oQuiet" -> Ev("agent_status", 3, "src-1", "done", NoVal, NoVal)
    [] tok = "oLog"   -> Ev("log", 5, NoVal, NoVal, "m2", NoVal)
    [] tok = "oTerm"  -> Ev("agent_status", 7, "end", "done", "m3", "G1")

\* JavaScript truthiness of a string-valued field.
Truthy(v) == v # NoVal /\ v # ""

\* ------------------------------------------------------------------ decoder
\* Bytes are symbols: "nl" (0x0A), "sp" (space), "q" (double quote), "a" (an
\* ASCII letter), "L" / "T" (lead and continuation byte of one two-byte UTF-8
\* character) and the object texts (each an ASCII text that no read splits).
\* Characters are the ASCII symbols plus "e2" (the two-byte character) and
\* "FFFD" (the replacement character).

RECURSIVE DecodeFrom(_, _, _)
DecodeFrom(lead, bytes, acc) ==
  IF bytes = <<>> THEN [chars |-> acc, lead |-> lead]
  ELSE LET b == Head(bytes) IN
    IF lead
      THEN IF b = "T"
             THEN DecodeFrom(FALSE, Tail(bytes), Append(acc, "e2"))
             ELSE DecodeFrom(FALSE, bytes, Append(acc, "FFFD"))
      ELSE IF b = "L" THEN DecodeFrom(TRUE, Tail(bytes), acc)
           ELSE IF b = "T" THEN DecodeFrom(FALSE, Tail(bytes), Append(acc, "FFFD"))
           ELSE DecodeFrom(FALSE, Tail(bytes), Append(acc, b))

\* A decoder that forgets the bytes it holds back between two calls.
Utf8DecodeNoStream(lead, bytes) ==
  LET r == DecodeFrom(FALSE, bytes, <<>>) IN
    [chars |-> IF r.lead THEN Append(r.chars, "FFFD") ELSE r.chars, lead |-> FALSE]

\* decoder.decode(value, { stream: true }): lead = an incomplete character is
\* held back from the previous call.
Utf8Decode(lead, bytes) == DecodeFrom(lead, bytes, <<>>)

\* buffer.split('\n'): the segments between newlines, at least one.
RECURSIVE SplitFrom(_, _, _)
SplitFrom(text, cur, acc) ==
  IF text = <<>> THEN Append(acc, cur)
  ELSE IF Head(text) = "nl" THEN SplitFrom(Tail(text), <<>>, Append(acc, cur))
  ELSE SplitFrom(Tail(text), Append(cur, Head(text)), acc)

SplitNL(text) == SplitFrom(text, <<>>, <<>>)

Front(s) == SubSeq(s, 1, Len(s) - 1)
Last(s) == s[Len(s)]

RECURSIVE TrimLeft(_)
TrimLeft(s) == IF s # <<>> /\ Head(s) = "sp" THEN TrimLeft(Tail(s)) ELSE s

RECURSIVE TrimRight(_)
TrimRight(s) == IF s # <<>> /\ Last(s) = "sp" THEN TrimRight(Front(s)) ELSE s

\* String.prototype.trim
Trim(s) == TrimRight(TrimLeft(s))

StringChars == {"a", "sp", "e2", "FFFD"}

\* JSON.parse(line): an object text alone on the line, or a quoted string;
\* anything else throws. Whitespace around the value is allowed.
JsonParse(line) ==
  LET t == Trim(line) IN
    IF Len(t) = 1 /\ t[1] \in ObjectTexts
      THEN [ok |-> TRUE, kind |-> "object", obj |-> t[1], str |-> <<>>]
    ELSE IF /\ Len(t) >= 2 /\ t[1] = "q" /\ t[Len(t)] = "q"
            /\ \A i \in 2..(Len(t) - 1) : t[i] \in StringChars
      THEN [ok |-> TRUE, kind |-> "string", obj |-> NoVal, str |-> SubSeq(t, 2, Len(t) - 1)]
    ELSE [ok |-> FALSE, kind |-> "error", obj |-> NoVal, str |-> <<>>]

\* A loop that a line that does not parse ends.
RECURSIVE ParsedOfUntilError(_)
ParsedOfUntilError(lines) ==
  IF lines = <<>> THEN <<>>
  ELSE LET l == Head(lines)
           p == JsonParse(l) IN
    IF Trim(l) = <<>> THEN ParsedOfUntilError(Tail(lines))
    ELSE IF ~p.ok THEN <<>>
    ELSE <<p>> \o ParsedOfUntilError(Tail(lines))

\* The values the for-loop over the complete lines parses, in order: blank
\* lines are skipped, a line that does not parse is caught and skipped.
RECURSIVE ParsedOf(_)
ParsedOf(lines) ==
  IF lines = <<>> THEN <<>>
  ELSE LET l == Head(lines)
           p == JsonParse(l) IN
    IF Trim(l) = <<>> \/ ~p.ok THEN ParsedOf(Tail(lines))
    ELSE <<p>> \o ParsedOf(Tail(lines))

\* The part of the text that one pass does not carry over.
CarryNothing(text) == <<>>

\* buffer = lines.pop()
CarryOver(text) == Last(SplitNL(text))

\* lines (after the pop)
CompleteLines(text) == Front(SplitNL(text))

\* ------------------------------------------------------------------ reducer
\* The App state one parsed line acts on.
AppState == [processLogs |-> processLogs, currentStep |-> currentStep,
             graphData |-> graphData, isGraphReady |-> isGraphReady]

\* A stage that only advances.
StageAfterMonotone(cur, step_id) ==
  LET m == IF step_id <= 2 THEN 1 ELSE IF step_id <= 4 THEN 2
           ELSE IF step_id <= 6 THEN 3 ELSE 4
  IN IF m > cur THEN m ELSE cur

\* if (data.step_id <= 2) setCurrentStep(1) else ... : the stage a truthy
\* step_id sets, whatever the stage was.
StageAfter(cur, step_id) ==
  IF step_id <= 2 THEN 1
  ELSE IF step_id <= 4 THEN 2
  ELSE IF step_id <= 6 THEN 3
  ELSE 4

\* Logging every parsed event.
LogAfterAlways(logs, d) == Append(logs, d)

\* A log that puts the newest entry first.
LogAfterNewestFirst(logs, d) == IF Truthy(d.message) THEN <<d>> \o logs ELSE logs

\* if (data.message) setProcessLogs(prev => [...prev, {...data, timestamp}]);
\* the timestamp, a wall-clock reading, is left out of the entry.
LogAfter(logs, d) == IF Truthy(d.message) THEN Append(logs, d) ELSE logs

\* A payload stored whatever the step of its event.
IsTerminalAnyStep(d) == Truthy(d.data)

\* if (data.data && data.step_id === 7)
IsTerminal(d) == Truthy(d.data) /\ d.step_id = 7

\* A terminal event that stores the payload and leaves the ready flag.
ApplyEventLeavesFlag(s, d) ==
  LET s1 == [s EXCEPT !.processLogs = LogAfter(@, d)]
      s2 == IF d.step_id # 0
              THEN [s1 EXCEPT !.currentStep = StageAfter(@, d.step_id)]
              ELSE s1
  IN IF IsTerminal(d)
       THEN [s2 EXCEPT !.graphData = d.data, !.currentStep = 4]
       ELSE s2

\* The body of the try block for one parsed object d.
ApplyEvent(s, d) ==
  LET s1 == [s EXCEPT !.processLogs = LogAfter(@, d)]
      s2 == IF d.step_id # 0
              THEN [s1 EXCEPT !.currentStep = StageAfter(@, d.step_id)]
              ELSE s1
  IN IF IsTerminal(d)
       THEN [s2 EXCEPT !.graphData = d.data, !.currentStep = 4, !.isGraphReady = TRUE]
       ELSE s2

\* for (const line of lines) { ... }: fold of the parsed values of one read.
\* A parsed string has no message, step_id or data: it changes nothing.
RECURSIVE ApplyParsed(_, _)
ApplyParsed(s, ps) ==
  IF ps = <<>> THEN s
  ELSE ApplyParsed(IF Head(ps).kind = "object"
                     THEN ApplyEvent(s, JsonObject(Head(ps).obj))
                     ELSE s,
                   Tail(ps))

RECURSIVE ObjectsOf(_)
ObjectsOf(ps) ==
  IF ps = <<>> THEN <<>>
  ELSE (IF Head(ps).kind = "object" THEN <<Head(ps).obj>> ELSE <<>>) \o ObjectsOf(Tail(ps))

\* ------------------------------------------------------------------ App
AppBytes == ObjectTexts \cup {"nl", "x"}

RECURSIVE SeqsUpTo(_, _)
SeqsUpTo(S, n) ==
  IF n = 0 THEN {<<>>}
  ELSE LET shorter == SeqsUpTo(S, n - 1) IN
    shorter \cup {Append(s, x) : s \in {t \in shorter : Len(t) = n - 1}, x \in S}

Chunks == SeqsUpTo(AppBytes, MaxChunkLen) \ {<<>>}

NewRun == [pc |-> "stats", buffer |-> <<>>, lead |-> FALSE, superseded |-> FALSE]
EndedRun == [pc |-> "done", buffer |-> <<>>, lead |-> FALSE, superseded |-> FALSE]

Live(r) == runs[r].pc # "done"

AnalyzeEntry(st, m) == Ev("agent_status", 7, "analyze", st, m, NoVal)

InitApp ==
  /\ selectedMajor = "" /\ hasUploadedPlan = FALSE /\ loading = FALSE
  /\ currentStep = 0 /\ graphData = Null /\ analysisReport = Null
  /\ processLogs = <<>> /\ isGraphReady = FALSE /\ isAnalyzing = FALSE
  /\ runs = <<>> /\ analyses = 0

\* A reset or a new start supersedes every run whose loop is still going.
Supersede(rs) ==
  [r \in DOMAIN rs |-> IF rs[r].pc # "done" THEN [rs[r] EXCEPT !.superseded = TRUE] ELSE rs[r]]

\* onSelectPlan of the plan manager
SelectPlan(major) ==
  /\ hasUploadedPlan' = TRUE
  /\ selectedMajor' = IF major # "" THEN major ELSE selectedMajor
  /\ UNCHANGED <<decVars, graphVars, evVars, flowVars, layoutVars, loading, currentStep, graphData, analysisReport, processLogs,
                 isGraphReady, isAnalyzing, runs, analyses>>

\* handleSchoolClick / handleCollegeClick clearing the selection
ClearMajor ==
  /\ selectedMajor # ""
  /\ selectedMajor' = ""
  /\ UNCHANGED <<decVars, graphVars, evVars, flowVars, layoutVars, hasUploadedPlan, loading, currentStep, graphData, analysisReport,
                 processLogs, isGraphReady, isAnalyzing, runs, analyses>>

\* A reset that leaves the log as it is.
ResetStateKeepsLog ==
  /\ graphData' = Null /\ analysisReport' = Null /\ processLogs' = processLogs
  /\ currentStep' = 0 /\ isGraphReady' = FALSE

ResetState ==
  /\ graphData' = Null /\ analysisReport' = Null /\ processLogs' = <<>>
  /\ currentStep' = 0 /\ isGraphReady' = FALSE

handleMajorClick(major) ==
  /\ selectedMajor' = major
  /\ ResetState
  /\ runs' = Supersede(runs)
  /\ UNCHANGED <<decVars, graphVars, evVars, flowVars, layoutVars, hasUploadedPlan, loading, isAnalyzing, analyses>>

\* the reset button, confirmed
ResetButton ==
  /\ selectedMajor # "" /\ hasUploadedPlan /\ ~loading
  /\ ResetState
  /\ runs' = Supersede(runs)
  /\ UNCHANGED <<decVars, graphVars, evVars, flowVars, layoutVars, selectedMajor, hasUploadedPlan, loading, isAnalyzing, analyses>>

\* A start button that is never disabled.
StartEnabledAlways == selectedMajor # "" /\ hasUploadedPlan

\* The start button is enabled (line 923); the regenerate button is shown
\* (line 1055) only when graphData && !loading, and the function itself
\* returns early without a major or a plan.
StartEnabled == selectedMajor # "" /\ hasUploadedPlan /\ ~loading

startGraphGeneration ==
  /\ StartEnabled
  /\ Len(runs) < MaxRuns
  /\ loading' = TRUE /\ currentStep' = 1 /\ graphData' = Null
  /\ analysisReport' = Null /\ processLogs' = <<>> /\ isGraphReady' = FALSE
  /\ runs' = Append(Supersede(runs), NewRun)
  /\ UNCHANGED <<decVars, graphVars, evVars, flowVars, layoutVars, selectedMajor, hasUploadedPlan, isAnalyzing, analyses>>

\* A failure that ends the run and leaves the stage where it was.
RunFailsKeepsStage(r) ==
  /\ loading' = FALSE
  /\ runs' = [runs EXCEPT ![r] = EndedRun]
  /\ UNCHANGED <<decVars, graphVars, evVars, flowVars, layoutVars, selectedMajor, hasUploadedPlan, currentStep, graphData,
                 analysisReport, processLogs, isGraphReady, isAnalyzing, analyses>>

\* catch { setCurrentStep(0) } finally { setLoading(false) }
RunFails(r) ==
  /\ currentStep' = 0 /\ loading' = FALSE
  /\ runs' = [runs EXCEPT ![r] = EndedRun]
  /\ UNCHANGED <<decVars, graphVars, evVars, flowVars, layoutVars, selectedMajor, hasUploadedPlan, graphData, analysisReport, processLogs,
                 isGraphReady, isAnalyzing, analyses>>

\* the stats request resolves (ok or not): setCurrentStep(2), then the stream
\* request is sent
StatsReturn(r) ==
  /\ r \in DOMAIN runs /\ runs[r].pc = "stats"
  /\ currentStep' = 2
  /\ runs' = [runs EXCEPT ![r].pc = "fetch"]
  /\ UNCHANGED <<decVars, graphVars, evVars, flowVars, layoutVars, selectedMajor, hasUploadedPlan, loading, graphData, analysisReport,
                 processLogs, isGraphReady, isAnalyzing, analyses>>

StatsFails(r) == r \in DOMAIN runs /\ runs[r].pc = "stats" /\ RunFails(r)

\* the stream request resolves: reader and decoder are created, buffer = ''
StreamOpens(r) ==
  /\ r \in DOMAIN runs /\ runs[r].pc = "fetch"
  /\ runs' = [runs EXCEPT ![r].pc = "read"]
  /\ UNCHANGED <<decVars, graphVars, evVars, flowVars, layoutVars, selectedMajor, hasUploadedPlan, loading, currentStep, graphData,
                 analysisReport, processLogs, isGraphReady, isAnalyzing, analyses>>

StreamFails(r) == r \in DOMAIN runs /\ runs[r].pc \in {"fetch", "read"} /\ RunFails(r)

\* one iteration of the while loop with done = false
ReadChunk(r, chunk) ==
  /\ r \in DOMAIN runs /\ runs[r].pc = "read"
  /\ LET dec == Utf8Decode(runs[r].lead, chunk)
         text == runs[r].buffer \o dec.chars
         ps == ParsedOf(CompleteLines(text))
         s == ApplyParsed(AppState, ps)
         rest == CarryOver(text)
     IN /\ Len(rest) <= MaxBuffer
        /\ Len(s.processLogs) <= MaxLog
        /\ processLogs' = s.processLogs /\ currentStep' = s.currentStep
        /\ graphData' = s.graphData /\ isGraphReady' = s.isGraphReady
        /\ runs' = [runs EXCEPT ![r].buffer = rest, ![r].lead = dec.lead]
  /\ UNCHANGED <<decVars, graphVars, evVars, flowVars, layoutVars, selectedMajor, hasUploadedPlan, loading, analysisReport, isAnalyzing, analyses>>

\* An end of the stream that leaves loading as it was.
ReadDoneKeepsLoading(r) ==
  /\ r \in DOMAIN runs /\ runs[r].pc = "read"
  /\ runs' = [runs EXCEPT ![r] = EndedRun]
  /\ UNCHANGED <<decVars, graphVars, evVars, flowVars, layoutVars, selectedMajor, hasUploadedPlan, loading, currentStep,
                 graphData, analysisReport, processLogs, isGraphReady, isAnalyzing, analyses>>

\* done = true: break, then finally { setLoading(false) }
ReadDone(r) ==
  /\ r \in DOMAIN runs /\ runs[r].pc = "read"
  /\ loading' = FALSE
  /\ runs' = [runs EXCEPT ![r] = EndedRun]
  /\ UNCHANGED <<decVars, graphVars, evVars, flowVars, layoutVars, selectedMajor, hasUploadedPlan, currentStep, graphData, analysisReport,
                 processLogs, isGraphReady, isAnalyzing, analyses>>

\* An analysis that can be requested with no payload held.
generateReportWithoutPayload ==
  /\ ~isAnalyzing
  /\ Len(processLogs) < MaxLog
  /\ isAnalyzing' = TRUE /\ currentStep' = 5
  /\ processLogs' = Append(processLogs, AnalyzeEntry("running", "a1"))
  /\ analyses' = analyses + 1
  /\ UNCHANGED <<decVars, graphVars, evVars, flowVars, layoutVars, selectedMajor, hasUploadedPlan, loading, graphData, analysisReport,
                 isGraphReady, runs>>

\* onRefresh of the report panel: enabled unless isAnalyzing or no graphData
generateReport ==
  /\ ~isAnalyzing /\ graphData # Null
  /\ Len(processLogs) < MaxLog
  /\ isAnalyzing' = TRUE /\ currentStep' = 5
  /\ processLogs' = Append(processLogs, AnalyzeEntry("running", "a1"))
  /\ analyses' = analyses + 1
  /\ UNCHANGED <<decVars, graphVars, evVars, flowVars, layoutVars, selectedMajor, hasUploadedPlan, loading, graphData, analysisReport,
                 isGraphReady, runs>>

\* the analysis request resolves with res.ok
AnalysisOk ==
  /\ analyses > 0 /\ Len(processLogs) <= MaxLog
  /\ analysisReport' = "R1"
  /\ processLogs' = Append(processLogs, AnalyzeEntry("done", "a2"))
  /\ isAnalyzing' = FALSE /\ analyses' = analyses - 1
  /\ UNCHANGED <<decVars, graphVars, evVars, flowVars, layoutVars, selectedMajor, hasUploadedPlan, loading, currentStep, graphData,
                 isGraphReady, runs>>

\* A failed analysis that sends the stage back to 0.
AnalysisFailsResetsStage ==
  /\ analyses > 0 /\ Len(processLogs) <= MaxLog
  /\ processLogs' = Append(processLogs, AnalyzeEntry("blocked", "a3"))
  /\ isAnalyzing' = FALSE /\ analyses' = analyses - 1 /\ currentStep' = 0
  /\ UNCHANGED <<decVars, graphVars, evVars, flowVars, layoutVars, selectedMajor, hasUploadedPlan, loading, graphData,
                 analysisReport, isGraphReady, runs>>

\* ... with an error status, or the request throws
AnalysisFails ==
  /\ analyses > 0 /\ Len(processLogs) <= MaxLog
  /\ processLogs' = Append(processLogs, AnalyzeEntry("blocked", "a3"))
  /\ isAnalyzing' = FALSE /\ analyses' = analyses - 1
  /\ UNCHANGED <<decVars, graphVars, evVars, flowVars, layoutVars, selectedMajor, hasUploadedPlan, loading, currentStep, graphData,
                 analysisReport, isGraphReady, runs>>

NextApp ==
  \/ \E m \in {"", "cs"} : SelectPlan(m)
  \/ ClearMajor
  \/ handleMajorClick("cs")
  \/ ResetButton
  \/ startGraphGeneration
  \/ \E r \in 1..MaxRuns : StatsReturn(r)
  \/ \E r \in 1..MaxRuns : StatsFails(r)
  \/ \E r \in 1..MaxRuns : StreamOpens(r)
  \/ \E r \in 1..MaxRuns : StreamFails(r)
  \/ \E r \in 1..MaxRuns, c \in Chunks : ReadChunk(r, c)
  \/ \E r \in 1..MaxRuns : ReadDone(r)
  \/ generateReport
  \/ AnalysisOk
  \/ AnalysisFails

\* ------------------------------------------------------------------ agent panel
\* agentLogs: the log entries that report an agent's status
\* A filter that takes every entry with an agent_id, whatever its type.
AgentLogsOfAnyType(logs) ==
  SelectSeq(logs, LAMBDA l : Truthy(l.agent_id))

AgentLogs(logs) ==
  SelectSeq(logs, LAMBDA l : l.event_type = "agent_status" /\ Truthy(l.agent_id))

\* A runtime entry that keeps the time its log entry was recorded.
RuntimeEntryWithTime(l) ==
  [status |-> IF Truthy(l.agent_status) THEN l.agent_status ELSE "idle",
   message |-> IF Truthy(l.message) THEN l.message ELSE "",
   time |-> IF "timestamp" \in DOMAIN l THEN l.timestamp ELSE 0]

RuntimeEntry(l) ==
  [status |-> IF Truthy(l.agent_status) THEN l.agent_status ELSE "idle",
   message |-> IF Truthy(l.message) THEN l.message ELSE ""]

LastIndexOf(s, a) ==
  LET I == {i \in 1..Len(s) : s[i].agent_id = a} IN
    CHOOSE i \in I : \A j \in I : j <= i

\* latestAgentRuntime: for (const log of agentLogs) map[log.agent_id] = {...}
latestAgentRuntime(logs) ==
  LET al == AgentLogs(logs) IN
    [a \in {al[i].agent_id : i \in 1..Len(al)} |-> RuntimeEntry(al[LastIndexOf(al, a)])]

\* ------------------------------------------------------------------ claims on the App
\* The objects one read of run r parses when it delivers chunk c.
ReadParsed(r, c) ==
  ParsedOf(CompleteLines(runs[r].buffer \o Utf8Decode(runs[r].lead, c).chars))

ReadEvents(r, c) ==
  LET toks == ObjectsOf(ReadParsed(r, c)) IN [i \in 1..Len(toks) |-> JsonObject(toks[i])]

\* C1 (as claimed): once a run is superseded (a reset, or the start of a new
\* run), no read of that run's stream changes the event log, the stage, the
\* stored graph payload or the graph-ready flag.
C1_SupersededStreamIsInert ==
  [][\A r \in DOMAIN runs : \A c \in Chunks :
       (runs[r].superseded /\ ReadChunk(r, c)) =>
         UNCHANGED <<processLogs, currentStep, graphData, isGraphReady>>]_vars

\* C3 (as claimed): within one run that has not been reset, no read of the
\* stream lowers the displayed stage.
C3_StageNeverDecreasesInRun ==
  [][\A r \in DOMAIN runs : \A c \in Chunks :
       (~runs[r].superseded /\ ReadChunk(r, c)) => currentStep' >= currentStep]_vars

\* C4 (as claimed): after a read, the agent-status entry of every agent that an
\* agent_status event of that read names is {status, message} of the last such
\* event (status defaulting to idle, message to empty).
C4_LatestEventWins ==
  [][\A r \in DOMAIN runs : \A c \in Chunks :
       ReadChunk(r, c) =>
         LET evs == AgentLogs(ReadEvents(r, c))
             m == latestAgentRuntime(processLogs')
         IN \A i \in 1..Len(evs) :
              LET a == evs[i].agent_id IN
                /\ a \in DOMAIN m
                /\ m[a] = RuntimeEntry(evs[LastIndexOf(evs, a)])]_vars

\* C5 (as claimed): every parsed event of a read is appended to the log, with
\* or without a message, so the log grows by the number of parsed events.
C5_EveryParsedEventLogged ==
  [][\A r \in DOMAIN runs : \A c \in Chunks :
       ReadChunk(r, c) => processLogs' = processLogs \o ReadEvents(r, c)]_vars

IdleDecoder ==
  /\ dStream = <<>> /\ dPos = 0 /\ dPending = FALSE /\ dBuffer = <<>>
  /\ dEmitted = <<>> /\ dDone = FALSE /\ dSplit = FALSE

IdleGraph ==
  /\ rawData = [entities |-> <<>>, relationships |-> <<>>]
  /\ display = [nodes |-> <<>>, links |-> <<>>] /\ shown = FALSE
  /\ extraE = {} /\ extraR = 0

IdleEvents == handled = <<>>

IdleFlow == tick = 0

IdleLayout ==
  /\ containerData = 0 /\ dimensions = 0 /\ graphRef = FALSE
  /\ stale = FALSE /\ applied = <<>>

Init == InitApp /\ IdleDecoder /\ IdleGraph /\ IdleEvents /\ IdleFlow /\ IdleLayout
Next == NextApp
Spec == Init /\ [][Next]_vars

\* ------------------------------------------------------------------ simplifier
\* An entity name is a sequence of characters, each named in ASCII: "sp" is a
\* space, "x" a letter, "di" .. "jiLevel" the Chinese characters of the
\* patterns, "0".."9" and "yi".."shi" the numerals.
Placeholders ==
  { <<"bu", "chong", "jie", "dian">>,
    <<"zhuan", "ye", "neng", "li", "bu", "chong">>,
    <<"guan", "jian", "jiSkill", "neng", "bu", "chong">>,
    <<"zhiJob", "ye", "su", "zhiQuality", "bu", "chong">>,
    <<"zhiSupport", "cheng", "ke", "chengRule", "bu", "chong">>,
    <<"zhuan", "ye", "he", "xin", "jie", "dian">> }

Numerals == {"0", "1", "2", "3", "4", "5", "6", "7", "8", "9",
             "yi", "er", "san", "si", "wu", "liu", "qi", "ba", "jiu", "shi"}

\* text.includes(pat)
Includes(text, pat) ==
  \E i \in 1..(Len(text) - Len(pat) + 1) : SubSeq(text, i, i + Len(pat) - 1) = pat

\* /di[numerals]+jiLevel/.test(text)
MatchesLevel(text) ==
  \E i \in 1..Len(text) : \E j \in (i + 2)..Len(text) :
    /\ text[i] = "di" /\ text[j] = "jiLevel"
    /\ \A k \in (i + 1)..(j - 1) : text[k] \in Numerals

\* A filter that knows the placeholder phrases only.
isNoiseNodeNameNoLevel(name) ==
  LET text == Trim(name) IN
    \/ text = <<>>
    \/ \E k \in Placeholders : Includes(text, k)

\* isNoiseNodeName; an absent name is the empty text
isNoiseNodeName(name) ==
  LET text == Trim(name) IN
    \/ text = <<>>
    \/ \E k \in Placeholders : Includes(text, k)
    \/ MatchesLevel(text)
    \/ Includes(text, <<"jiHow", "jiLevel">>)

coreTypes == {"Major", "Capability", "Skill", "Quality", "Course"}

JobQuota == 28
CompanyQuota == 20

\* relLimit[rel.relation] ?? 100
RelLimit(relation) ==
  CASE relation = "TARGETS_JOB" -> 40
    [] relation = "OFFERED_BY" -> 30
    [] relation = "INCLUDES_SKILL" -> 80
    [] relation = "SUPPORTS_CAPABILITY" -> 60
    [] relation = "REQUIRES_QUALITY" -> 50
    [] relation = "CULTIVATES_CAPABILITY" -> 40
    [] OTHER -> 100

IdsOf(nodes) == {nodes[i].id : i \in 1..Len(nodes)}

\* degree: one count per end of every relationship
DegreeMap(ids, links) ==
  [id \in ids |->
     Cardinality({i \in 1..Len(links) : links[i].head = id})
       + Cardinality({i \in 1..Len(links) : links[i].tail = id})]

\* Array.prototype.sort with (a, b) => degree(b) - degree(a): stable, so
\* equal degrees keep their order
RECURSIVE InsertByDegree(_, _, _)
InsertByDegree(sorted, n, deg) ==
  IF sorted = <<>> THEN <<n>>
  ELSE IF deg[Head(sorted).id] >= deg[n.id]
    THEN <<Head(sorted)>> \o InsertByDegree(Tail(sorted), n, deg)
    ELSE <<n>> \o sorted

RECURSIVE SortByDegree(_, _)
SortByDegree(nodes, deg) ==
  IF nodes = <<>> THEN <<>>
  ELSE InsertByDegree(SortByDegree(Front(nodes), deg), Last(nodes), deg)

\* slice(0, n)
Slice(s, n) == SubSeq(s, 1, IF Len(s) < n THEN Len(s) ELSE n)

\* A ranking that keeps the original order.
TopByDegreeUnsorted(nodes, type, deg, quota) ==
  Slice(SelectSeq(nodes, LAMBDA n : n.type = type), quota)

\* rawNodes.filter(type).sort(by degree).slice(0, quota)
TopByDegree(nodes, type, deg, quota) ==
  Slice(SortByDegree(SelectSeq(nodes, LAMBDA n : n.type = type), deg), quota)

\* `${rel.head}|${rel.relation}|${rel.tail}`
RelKey(rel) == rel.head \o "|" \o rel.relation \o "|" \o rel.tail

\* { source: rel.head, target: rel.tail, ...rel }: a source or target field
\* of rel itself (a link fed back in has both) overrides the one set first
LinkOf(rel) ==
  [source |-> IF "source" \in DOMAIN rel THEN rel.source ELSE rel.head,
   target |-> IF "target" \in DOMAIN rel THEN rel.target ELSE rel.tail,
   head |-> rel.head, relation |-> rel.relation, tail |-> rel.tail]

\* A loop that never skips a link for its endpoints.
EndpointsKeptAlways(rel, keptIds) == TRUE

\* !(!keptIds.has(rel.head) || !keptIds.has(rel.tail))
EndpointsKept(rel, keptIds) == rel.head \in keptIds /\ rel.tail \in keptIds

\* A loop that forgets the triples it has seen.
SeenBeforeNever(rel, seenRel) == FALSE

\* seenRel.has(key)
SeenBefore(rel, seenRel) == RelKey(rel) \in seenRel

\* A loop that never reaches a ceiling.
AtLimitNever(rel, relCount) == FALSE

\* The names relLimit and relCount, two object literals, inherit from
\* Object.prototype.
ObjectPrototypeKeys ==
  {"constructor", "toString", "toLocaleString", "valueOf", "hasOwnProperty",
   "isPrototypeOf", "propertyIsEnumerable", "__proto__"}

\* relCount[rel.relation] >= limit. For an inherited name relLimit[name] is
\* the inherited member, not null, so ?? 100 does not apply, and
\* relCount[name] || 0 is the same member: the comparison of the member with
\* itself (both converted to one string) is true.
AtLimit(rel, relCount) ==
  IF rel.relation \in ObjectPrototypeKeys THEN TRUE
  ELSE relCount[rel.relation] >= RelLimit(rel.relation)

\* The body of the loop over rawLinks for one relationship; st holds seenRel,
\* relCount (0 for a kind not counted yet: relCount[k] || 0) and links.
AcceptStep(st, rel, keptIds) ==
  IF ~EndpointsKept(rel, keptIds) THEN st
  ELSE IF SeenBefore(rel, st.seenRel) THEN st
  ELSE IF AtLimit(rel, st.relCount)
    THEN [st EXCEPT !.seenRel = @ \cup {RelKey(rel)}]
  ELSE [st EXCEPT !.seenRel = @ \cup {RelKey(rel)},
                  !.relCount[rel.relation] = @ + 1,
                  !.links = Append(@, LinkOf(rel))]

\* for (const rel of rawLinks) { ... } over rels[lo..hi], in order (the range
\* is halved to keep the evaluation shallow)
RECURSIVE AcceptRange(_, _, _, _, _)
AcceptRange(rels, lo, hi, st, keptIds) ==
  IF lo > hi THEN st
  ELSE IF lo = hi THEN AcceptStep(st, rels[lo], keptIds)
  ELSE LET mid == (lo + hi) \div 2
           left == AcceptRange(rels, lo, mid, st, keptIds)
       IN \* the first half is evaluated before the second is entered
          IF Len(left.links) >= 0 THEN AcceptRange(rels, mid + 1, hi, left, keptIds) ELSE left

AcceptLinks(rels, keptIds) ==
  AcceptRange(rels, 1, Len(rels),
              [seenRel |-> {},
               relCount |-> [k \in {rels[i].relation : i \in 1..Len(rels)} |-> 0],
               links |-> <<>>], keptIds).links

\* An output that keeps only the nodes some link uses.
IsOutputNodeUsedOnly(n, keptIds, usedIds) == n.id \in keptIds /\ n.id \in usedIds

\* keptIds.has(n.id) && (usedIds.has(n.id) || coreTypes.has(n.type))
IsOutputNode(n, keptIds, usedIds) ==
  n.id \in keptIds /\ (n.id \in usedIds \/ n.type \in coreTypes)

\* rawData?.entities || [] and rawData?.relationships || []: a payload that
\* lacks a field gives the empty list
EntitiesOf(raw) == IF "entities" \in DOMAIN raw THEN raw.entities ELSE <<>>
RelationshipsOf(raw) == IF "relationships" \in DOMAIN raw THEN raw.relationships ELSE <<>>

buildDisplayGraph(raw) ==
  LET rawNodes == SelectSeq(EntitiesOf(raw), LAMBDA n : ~isNoiseNodeName(n.name))
      validNodeIds == IdsOf(rawNodes)
      rawLinks == SelectSeq(RelationshipsOf(raw),
                            LAMBDA l : l.head \in validNodeIds /\ l.tail \in validNodeIds)
      degree == DegreeMap(validNodeIds, rawLinks)
      jobs == TopByDegree(rawNodes, "Job", degree, JobQuota)
      companies == TopByDegree(rawNodes, "Company", degree, CompanyQuota)
      keptIds == IdsOf(SelectSeq(rawNodes, LAMBDA n : n.type \in coreTypes))
                   \cup IdsOf(jobs) \cup IdsOf(companies)
      links == AcceptLinks(rawLinks, keptIds)
      usedIds == {links[i].source : i \in 1..Len(links)}
                   \cup {links[i].target : i \in 1..Len(links)}
      nodes == SelectSeq(rawNodes, LAMBDA n : IsOutputNode(n, keptIds, usedIds))
  IN IF rawNodes = <<>> THEN [nodes |-> <<>>, links |-> <<>>]
     ELSE [nodes |-> nodes, links |-> links]

\* ------------------------------------------------------------------ SpecDecoder
\* The read loop of startGraphGeneration (lines 628-636 and the parse of line
\* 640) on one whole byte stream, cut into reads at every possible place.
DecBytes == {"nl", "q", "L", "T", "oRun"}

InitDecoder ==
  /\ dStream \in SeqsUpTo(DecBytes, MaxStreamLen)
  /\ dPos = 0 /\ dPending = FALSE /\ dBuffer = <<>>
  /\ dEmitted = <<>> /\ dDone = FALSE /\ dSplit = FALSE

\* reader.read() resolves with the next k bytes
DecRead(k) ==
  /\ ~dDone /\ dPos + k <= Len(dStream)
  /\ LET dec == Utf8Decode(dPending, SubSeq(dStream, dPos + 1, dPos + k))
         text == dBuffer \o dec.chars
     IN /\ dEmitted' = dEmitted \o ParsedOf(CompleteLines(text))
        /\ dBuffer' = CarryOver(text)
        /\ dPending' = dec.lead
        /\ dSplit' = (dSplit \/ ((CarryOver(text) # <<>> \/ dec.lead) /\ dPos + k < Len(dStream)))
  /\ dPos' = dPos + k
  /\ UNCHANGED <<dStream, dDone, appVars, graphVars, evVars, flowVars, layoutVars>>

\* An end of the stream that handles the text left in the buffer as a line.
DecEndFlush ==
  /\ ~dDone /\ dPos = Len(dStream)
  /\ dDone' = TRUE
  /\ dEmitted' = dEmitted \o ParsedOf(<<dBuffer>>)
  /\ UNCHANGED <<dStream, dPos, dPending, dBuffer, dSplit, appVars, graphVars, evVars, flowVars, layoutVars>>

\* reader.read() resolves with done = true: break; the buffer is dropped
DecEnd ==
  /\ ~dDone /\ dPos = Len(dStream)
  /\ dDone' = TRUE
  /\ UNCHANGED <<dStream, dPos, dPending, dBuffer, dEmitted, dSplit, appVars, graphVars, evVars, flowVars, layoutVars>>

NextDecoder ==
  \/ \E k \in 1..MaxStreamLen : DecRead(k)
  \/ DecEnd

InitD == InitApp /\ InitDecoder /\ IdleGraph /\ IdleEvents /\ IdleFlow /\ IdleLayout
SpecDecoder == InitD /\ [][NextDecoder]_vars

\* The whole stream decoded in one piece (an incomplete last character is
\* replaced), and its segments between newlines.
WholeText(stream) ==
  LET r == Utf8Decode(FALSE, stream) IN
    IF r.lead THEN Append(r.chars, "FFFD") ELSE r.chars

\* C2 (as claimed): whatever the cuts, the records emitted when the stream ends
\* are the records of the segments obtained by splitting the whole stream on
\* newlines.
C2_RecordsOfAllSegments ==
  dDone => dEmitted = ParsedOf(SplitNL(WholeText(dStream)))

\* C2 (amended): whatever the cuts, the records emitted when the stream ends
\* are the records of the newline-terminated lines of the whole stream, in
\* order; the text after the last newline yields no record.
C2_RecordsOfTerminatedLines ==
  dDone => dEmitted = ParsedOf(CompleteLines(WholeText(dStream)))

\* A stream read in pieces and cut inside a line, that yielded a record and
\* ended with text after its last newline.
C2_Witness ==
  /\ dDone /\ dSplit
  /\ dEmitted # <<>> /\ dBuffer # <<>>

\* ------------------------------------------------------------------ SpecGraph
\* buildDisplayGraph on payloads: a seed payload (empty, one entity, many Job
\* entities under one of four degree patterns, or a dense graph of one
\* relation kind with one relationship more than the kind's ceiling), to
\* which single entities and relationships are added before it is rendered.
Entity(id, name, type) == [id |-> id, name |-> name, type |-> type]
Rel(h, r, t) == [head |-> h, relation |-> r, tail |-> t]

PlainName == <<"x">>
LevelName == <<"di", "san", "jiLevel">>

CoreId(i) == "c" \o ToString(i)
JobId(i) == "j" \o ToString(i)

CoreTypeOf(i) ==
  CASE i % 5 = 1 -> "Major" [] i % 5 = 2 -> "Capability" [] i % 5 = 3 -> "Skill"
    [] i % 5 = 4 -> "Quality" [] OTHER -> "Course"

Cores(n) == [i \in 1..n |-> Entity(CoreId(i), PlainName, CoreTypeOf(i))]
Jobs(n) == [i \in 1..n |-> Entity(JobId(i), PlainName, "Job")]

RECURSIVE Flatten(_)
Flatten(ss) == IF ss = <<>> THEN <<>> ELSE Head(ss) \o Flatten(Tail(ss))

JobPatterns == {"flat", "rising", "mod", "twoSame"}

\* The relationships of job j under a pattern: flat = one TARGETS_JOB each;
\* rising = the first two jobs have one relationship, the others two;
\* mod = j % 3 relationships; twoSame = two TARGETS_JOB each.
JobRels(pattern, j) ==
  LET a == Rel(CoreId(1), "TARGETS_JOB", JobId(j))
      b == Rel(CoreId(2), "RELATED_TO", JobId(j))
      c == Rel(CoreId(2), "TARGETS_JOB", JobId(j))
  IN CASE pattern = "flat" -> <<a>>
       [] pattern = "rising" -> IF j <= 2 THEN <<a>> ELSE <<a, b>>
       [] pattern = "mod" -> IF j % 3 = 0 THEN <<>> ELSE IF j % 3 = 1 THEN <<a>> ELSE <<a, b>>
       [] pattern = "twoSame" -> <<a, c>>

JobSeed(pattern) ==
  [entities |-> Cores(2) \o Jobs(MaxJobs),
   relationships |-> Flatten([j \in 1..MaxJobs |-> JobRels(pattern, j)])]

RelKinds == {"TARGETS_JOB", "OFFERED_BY", "INCLUDES_SKILL", "SUPPORTS_CAPABILITY",
             "REQUIRES_QUALITY", "CULTIVATES_CAPABILITY", "RELATED_TO"}

\* RelLimit(kind) + 1 distinct relationships of one kind among the cores
DenseSeed(kind) ==
  [entities |-> Cores(DenseCores),
   relationships |->
     [i \in 1..(RelLimit(kind) + 1) |->
        Rel(CoreId(((i - 1) \div DenseCores) + 1), kind, CoreId(((i - 1) % DenseCores) + 1))]]

\* JobQuota Job entities and a second entity with the id of the first; the
\* first job has two different relationships, every other job one
\* relationship sent twice
DupSeed ==
  [entities |-> Cores(2) \o Jobs(JobQuota) \o <<Entity(JobId(1), PlainName, "Job")>>,
   relationships |->
     Flatten([j \in 1..JobQuota |->
                IF j = 1 THEN <<Rel(CoreId(1), "RELATED_TO", JobId(1)),
                                Rel(CoreId(2), "RELATED_TO", JobId(1))>>
                ELSE <<Rel(CoreId(1), "RELATED_TO", JobId(j)),
                       Rel(CoreId(1), "RELATED_TO", JobId(j))>>])]

\* names the filter is to remove: empty, blank, a placeholder phrase inside
\* other text, the level pattern with a spelled-out numeral and with digits
\* inside other text
NoiseNames ==
  { <<>>, <<"sp", "sp">>, <<"x", "bu", "chong", "jie", "dian">>,
    LevelName, <<"x", "di", "1", "2", "jiLevel", "x">> }

\* two cores and a Skill and a Job of the given name, each with relationships
NamedSeed(name) ==
  [entities |-> Cores(2) \o <<Entity("n1", name, "Skill"), Entity("n2", name, "Job")>>,
   relationships |->
     << Rel(CoreId(1), "RELATED_TO", CoreId(2)), Rel(CoreId(1), "INCLUDES_SKILL", "n1"),
        Rel("n1", "RELATED_TO", CoreId(2)), Rel(CoreId(1), "TARGETS_JOB", "n2") >>]

\* entities that all carry the noisy name, of core and peripheral types,
\* with relationships between them
AllNoiseSeed(name) ==
  [entities |-> <<Entity("n1", name, "Major"), Entity("n2", name, "Job"), Entity("n3", name, "Skill")>>,
   relationships |->
     << Rel("n1", "TARGETS_JOB", "n2"), Rel("n1", "INCLUDES_SKILL", "n3"), Rel("n1", "RELATED_TO", "zz") >>]

\* two cores joined by one relationship of every kind
MixedSeed ==
  [entities |-> Cores(2),
   relationships |->
     << Rel(CoreId(1), "TARGETS_JOB", CoreId(2)), Rel(CoreId(1), "OFFERED_BY", CoreId(2)),
        Rel(CoreId(1), "INCLUDES_SKILL", CoreId(2)), Rel(CoreId(1), "SUPPORTS_CAPABILITY", CoreId(2)),
        Rel(CoreId(1), "REQUIRES_QUALITY", CoreId(2)), Rel(CoreId(1), "CULTIVATES_CAPABILITY", CoreId(2)),
        Rel(CoreId(1), "RELATED_TO", CoreId(2)) >>]

\* two cores joined by relationships whose kinds are names every object
\* inherits, and by one of an ordinary unlisted kind
InheritedKindSeed ==
  [entities |-> Cores(2),
   relationships |->
     << Rel(CoreId(1), "constructor", CoreId(2)), Rel(CoreId(1), "RELATED_TO", CoreId(2)),
        Rel(CoreId(2), "toString", CoreId(1)) >>]

CompanyId(i) == "k" \o ToString(i)
Companies(n) == [i \in 1..n |-> Entity(CompanyId(i), PlainName, "Company")]

\* Jobs and Companies beyond both quotas: the first two of each type have
\* one relationship, the others two
QuotaSeed ==
  [entities |-> Cores(2) \o Jobs(MaxJobs) \o Companies(MaxCompanies),
   relationships |->
     Flatten([j \in 1..MaxJobs |-> JobRels("rising", j)])
       \o Flatten([k \in 1..MaxCompanies |->
                     IF k <= 2 THEN <<Rel(CompanyId(k), "OFFERED_BY", CoreId(1))>>
                     ELSE <<Rel(CompanyId(k), "OFFERED_BY", CoreId(1)),
                            Rel(CoreId(2), "RELATED_TO", CompanyId(k))>>])]

\* an entity with a category and a type that may be absent (NoVal)
EntityOfCategory(id, name, type, category) ==
  [id |-> id, name |-> name, type |-> type, category |-> category]

\* two cores and entities outside the type vocabulary: one with no type and
\* a known category, one of an unknown type with a known category, one whose
\* type differs from a known one by its case; each is named by relationships
\* of listed and unlisted kinds
UntypedSeed ==
  [entities |-> Cores(2) \o << EntityOfCategory("u1", PlainName, NoVal, "Core"),
                               EntityOfCategory("u2", PlainName, "Topic", "Target"),
                               Entity("u3", PlainName, "job") >>,
   relationships |->
     << Rel(CoreId(1), "INCLUDES_SKILL", "u1"), Rel("u2", "TARGETS_JOB", CoreId(2)),
        Rel(CoreId(1), "RELATED_TO", "u3"), Rel("u1", "RELATED_TO", "u2"),
        Rel(CoreId(1), "RELATED_TO", CoreId(2)) >>]

\* two cores and an entity of an unknown type that carries the id of the
\* first core
TypeClashSeed ==
  [entities |-> Cores(2) \o <<EntityOfCategory(CoreId(1), PlainName, "Topic", "Core")>>,
   relationships |-> <<Rel(CoreId(1), "RELATED_TO", CoreId(2))>>]

\* payloads that lack a field: no entities, no relationships, neither
BareSeeds ==
  { [relationships |-> <<Rel(CoreId(1), "RELATED_TO", CoreId(2)), Rel(CoreId(1), "TARGETS_JOB", "j1")>>],
    [entities |-> Cores(2)],
    [version |-> "v1"] }

Seeds ==
  {[entities |-> <<>>, relationships |-> <<>>], [entities |-> Cores(1), relationships |-> <<>>]}
    \cup BareSeeds
    \cup {MixedSeed, InheritedKindSeed, QuotaSeed, UntypedSeed, TypeClashSeed}
    \cup {AllNoiseSeed(n) : n \in NoiseNames}
    \cup {JobSeed(p) : p \in JobPatterns}
    \cup {DenseSeed(k) : k \in RelKinds}
    \cup {DupSeed}
    \cup {NamedSeed(n) : n \in NoiseNames \cup {<<"di", "jiLevel">>}}

ExtraEntities ==
  << Entity("x1", PlainName, "Major"), Entity("x2", PlainName, "Job"),
     Entity("x3", LevelName, "Skill"), Entity("x4", PlainName, "Topic") >>

ExtraRels ==
  { Rel("c1", "TARGETS_JOB", "j1"), Rel("c1", "RELATED_TO", JobId(MaxJobs)),
    Rel("c1", "TARGETS_JOB", "x2"), Rel("c1", "RELATED_TO", "x3"),
    Rel("c1", "RELATED_TO", "x4"), Rel("c1", "TARGETS_JOB", "zz") }

InitGraph ==
  /\ rawData \in Seeds
  /\ display = [nodes |-> <<>>, links |-> <<>>] /\ shown = FALSE
  /\ extraE = {} /\ extraR = 0

\* the backend's payload holds one more entity (added in the order of
\* ExtraEntities)
AddEntity(i) ==
  /\ ~shown /\ Cardinality(extraE) < MaxExtraEntities
  /\ "entities" \in DOMAIN rawData
  /\ \A k \in extraE : k < i
  /\ rawData' = [rawData EXCEPT !.entities = Append(@, ExtraEntities[i])]
  /\ extraE' = extraE \cup {i}
  /\ UNCHANGED <<display, shown, extraR, appVars, decVars, evVars, flowVars, layoutVars>>

\* ... one more relationship
AddRelationship(r) ==
  /\ ~shown /\ extraR < MaxExtraRels
  /\ "relationships" \in DOMAIN rawData
  /\ rawData' = [rawData EXCEPT !.relationships = Append(@, r)]
  /\ extraR' = extraR + 1
  /\ UNCHANGED <<display, shown, extraE, appVars, decVars, evVars, flowVars, layoutVars>>

\* GraphContainer: graphData = useMemo(() => buildDisplayGraph(data), [data])
Render ==
  /\ ~shown
  /\ display' = buildDisplayGraph(rawData)
  /\ shown' = TRUE
  /\ UNCHANGED <<rawData, extraE, extraR, appVars, decVars, evVars, flowVars, layoutVars>>

NextGraph ==
  \/ \E i \in DOMAIN ExtraEntities : AddEntity(i)
  \/ \E r \in ExtraRels : AddRelationship(r)
  \/ Render

InitG == InitApp /\ IdleDecoder /\ InitGraph /\ IdleEvents /\ IdleFlow /\ IdleLayout
SpecGraph == InitG /\ [][NextGraph]_vars

\* ------------------------------------------------------------------ claims on the simplifier
NodeIds == IdsOf(display.nodes)
LinkTriple(l) == <<l.head, l.relation, l.tail>>
RelTriple(r) == <<r.head, r.relation, r.tail>>
LinksOfKind(kind) == {i \in 1..Len(display.links) : display.links[i].relation = kind}
RelsOfKind(kind) ==
  {i \in 1..Len(RelationshipsOf(rawData)) : RelationshipsOf(rawData)[i].relation = kind}

\* C6: every link of the output has its source and its target among the ids
\* of the output nodes.
C6_LinkEndpointsAreNodes ==
  shown => \A i \in 1..Len(display.links) :
             display.links[i].source \in NodeIds /\ display.links[i].target \in NodeIds

\* An output with links, from a payload one of whose relationships ends at
\* an entity that is no output node.
C6_Witness ==
  /\ shown /\ display.links # <<>>
  /\ \E i \in 1..Len(RelationshipsOf(rawData)) : RelationshipsOf(rawData)[i].tail \notin NodeIds

\* C7: no two links of the output have the same (head, relation, tail).
C7_NoDuplicateTriple ==
  shown => \A i, j \in 1..Len(display.links) :
             i # j => LinkTriple(display.links[i]) # LinkTriple(display.links[j])

\* A payload that repeats a triple which the output holds.
C7_Witness ==
  /\ shown
  /\ \E i, j \in 1..Len(RelationshipsOf(rawData)) :
       /\ i < j
       /\ RelTriple(RelationshipsOf(rawData)[i]) = RelTriple(RelationshipsOf(rawData)[j])
       /\ \E k \in 1..Len(display.links) :
            LinkTriple(display.links[k]) = RelTriple(RelationshipsOf(rawData)[i])

\* The ceilings as the claim lists them.
ClaimedCeiling(kind) ==
  CASE kind = "TARGETS_JOB" -> 40 [] kind = "OFFERED_BY" -> 30
    [] kind = "INCLUDES_SKILL" -> 80 [] kind = "SUPPORTS_CAPABILITY" -> 60
    [] kind = "REQUIRES_QUALITY" -> 50 [] kind = "CULTIVATES_CAPABILITY" -> 40
    [] OTHER -> 100

RECURSIVE SumCeilings(_)
SumCeilings(kinds) ==
  IF kinds = {} THEN 0
  ELSE LET k == CHOOSE x \in kinds : TRUE IN ClaimedCeiling(k) + SumCeilings(kinds \ {k})

\* C8: the output holds at most ClaimedCeiling(kind) links of every relation
\* kind, hence no more links than the sum of the ceilings of its kinds.
C8_PerKindCeiling ==
  shown =>
    LET kinds == {display.links[i].relation : i \in 1..Len(display.links)} IN
      /\ \A k \in kinds : Cardinality(LinksOfKind(k)) <= ClaimedCeiling(k)
      /\ Len(display.links) <= SumCeilings(kinds)

\* A payload with more relationships of a kind than the kind's ceiling, and
\* an output that holds exactly the ceiling.
C8_Witness ==
  /\ shown
  /\ \E k \in RelKinds :
       /\ Cardinality(RelsOfKind(k)) > ClaimedCeiling(k)
       /\ Cardinality(LinksOfKind(k)) = ClaimedCeiling(k)

\* C9: every entity of a core type whose name is no noise is an output node.
C9_CoreEntitiesKept ==
  shown => \A i \in 1..Len(EntitiesOf(rawData)) :
             LET n == EntitiesOf(rawData)[i] IN
               (n.type \in {"Major", "Capability", "Skill", "Quality", "Course"}
                  /\ ~isNoiseNodeName(n.name))
                 => \E k \in 1..Len(display.nodes) : display.nodes[k] = n

\* An output with links and with a core node that no link touches.
C9_Witness ==
  /\ shown /\ display.links # <<>>
  /\ \E k \in 1..Len(display.nodes) :
       /\ display.nodes[k].type = "Major"
       /\ \A i \in 1..Len(display.links) :
            display.links[i].source # display.nodes[k].id
              /\ display.links[i].target # display.nodes[k].id

\* --- C10: the Job quota
\* The entities that pass the noise filter, by position in the payload.
ValidAt == {i \in 1..Len(EntitiesOf(rawData)) : ~isNoiseNodeName(EntitiesOf(rawData)[i].name)}
ValidIds == {EntitiesOf(rawData)[i].id : i \in ValidAt}
JobsAt == {i \in ValidAt : EntitiesOf(rawData)[i].type = "Job"}

\* undirected degree of the Job entities, by position, over the
\* relationships between entities that pass the filter
JobDegree ==
  LET valid == ValidIds
      R == {i \in 1..Len(RelationshipsOf(rawData)) :
              RelationshipsOf(rawData)[i].head \in valid
                /\ RelationshipsOf(rawData)[i].tail \in valid}
      Deg(id) == Cardinality({i \in R : RelationshipsOf(rawData)[i].head = id})
                   + Cardinality({i \in R : RelationshipsOf(rawData)[i].tail = id})
      deg == [i \in JobsAt |-> Deg(EntitiesOf(rawData)[i].id)]
  IN IF deg = deg THEN deg ELSE deg

\* the ids of the 28 Job entities of highest degree, ties by original order
TopJobIds(deg) ==
  LET Beats(k, i) == deg[k] > deg[i] \/ (deg[k] = deg[i] /\ k < i)
  IN {EntitiesOf(rawData)[i].id :
        i \in {i \in DOMAIN deg : Cardinality({k \in DOMAIN deg : Beats(k, i)}) < 28}}

OutputJobIds == {display.nodes[k].id : k \in {k \in 1..Len(display.nodes) : display.nodes[k].type = "Job"}}

LinkedIds == {display.links[i].source : i \in 1..Len(display.links)}
               \cup {display.links[i].target : i \in 1..Len(display.links)}

\* more than 28 Job entities, of at least two different degrees, no Company
JobQuotaCase(deg) ==
  /\ Cardinality(DOMAIN deg) > 28
  /\ Cardinality({deg[i] : i \in DOMAIN deg}) > 1
  /\ \A i \in 1..Len(EntitiesOf(rawData)) : EntitiesOf(rawData)[i].type # "Company"

\* C10 (as claimed): in that case the Job nodes of the output are exactly the
\* 28 Job entities of highest degree.
C10_ExactlyTopJobs ==
  shown => LET deg == JobDegree IN
             JobQuotaCase(deg) => OutputJobIds = TopJobIds(deg)

\* C10 (amended): in that case the output has at most 28 Job nodes, each one
\* of the 28 Job entities of highest degree (ties by original order), and one
\* of those 28 is an output node exactly when an accepted link touches it.
C10_OutputJobsAmongTop ==
  shown => LET deg == JobDegree
               top == TopJobIds(deg)
               out == OutputJobIds
               linked == LinkedIds
           IN JobQuotaCase(deg) =>
                /\ Cardinality(out) <= 28
                /\ out \subseteq top
                /\ \A id \in top : id \in out <=> id \in linked

\* 28 Job nodes in the output, and the first Job of the payload, which
\* passes the filter, is not one of them: the ranking, not the order, chose.
C10_Witness ==
  /\ shown /\ JobQuotaCase(JobDegree)
  /\ Cardinality(OutputJobIds) = 28
  /\ JobId(1) \notin OutputJobIds /\ JobId(1) \in ValidIds

\* --- C11: a second pass over the output
\* the output fed back in: its nodes as entities, its links as relationships
SecondPass ==
  buildDisplayGraph([entities |-> display.nodes, relationships |-> display.links])

DistinctIds(nodes) ==
  \A i, j \in 1..Len(nodes) : nodes[i].id = nodes[j].id => i = j

MaxDeliver == 2
MaxStep == 8

\* the ids of agentNodes, in order
agentNodes == << "start", "src-1", "src-2", "src-3", "src-4", "verify", "build",
                 "graph-1", "graph-2", "graph-3", "end", "analyze" >>

\* the log after the first k agents reported done (odd positions) or blocked
LogSeed(k) ==
  [i \in 1..k |->
     Ev("agent_status", 3, agentNodes[i], IF i % 2 = 1 THEN "done" ELSE "blocked", "m0", NoVal)]

EventPool ==
  {Ev("agent_status", s, "src-1", "running", "m1", NoVal) : s \in 0..MaxStep}
    \cup { Ev("agent_status", 7, "end", "done", "m3", "G1"),
           Ev("agent_status", 7, "end", "done", "m3", "G2"),
           Ev("agent_status", 7, "end", "done", NoVal, NoVal),
           Ev("log", 5, NoVal, NoVal, "m2", "G1"),
           Ev("agent_status", 3, "src-1", "done", NoVal, NoVal),
           Ev("agent_status", 4, "graph-3", "blocked", "m4", NoVal),
           Ev("agent_status", 6, "analyze", "done", "m5", NoVal),
           Ev("agent_status", 2, "zz", "done", "m6", NoVal),
           Ev("agent_status", 2, "zz", "running", "m6", NoVal),
           Ev("agent_status", 2, "zz", "blocked", NoVal, NoVal),
           Ev("log", 2, "src-1", "done", "m7", NoVal),
           Ev("agent_status", 2, NoVal, "done", "m8", NoVal),
           Ev("agent_status", 3, "src-1", "done", "m9", NoVal) }

\* what a line that is no object parses to: no field at all
NoEvent == Ev(NoVal, 0, NoVal, NoVal, NoVal, NoVal)

\* the state after startGraphGeneration, the stats response and the stream
\* response, with the log of the events received so far; handled starts with
\* that state
InitEvents ==
  /\ selectedMajor = "cs" /\ hasUploadedPlan = TRUE /\ loading = TRUE
  /\ currentStep = 2 /\ graphData = Null /\ analysisReport = Null
  /\ processLogs \in {LogSeed(k) : k \in 0..Len(agentNodes)}
  /\ isGraphReady = FALSE /\ isAnalyzing = FALSE
  /\ runs = <<[NewRun EXCEPT !.pc = "read"]>> /\ analyses = 0
  /\ handled = <<[kind |-> "open", ev |-> NoEvent, stage |-> currentStep,
                  graph |-> graphData, logs |-> processLogs]>>

\* one line of a read parses to the object e: the body of the try block
Deliver(e) ==
  /\ Len(handled) <= MaxDeliver
  /\ LET s == ApplyEvent(AppState, e) IN
       /\ processLogs' = s.processLogs /\ currentStep' = s.currentStep
       /\ graphData' = s.graphData /\ isGraphReady' = s.isGraphReady
       /\ handled' = Append(handled, [kind |-> "object", ev |-> e, stage |-> s.currentStep,
                                      graph |-> s.graphData, logs |-> s.processLogs])
  /\ UNCHANGED <<decVars, graphVars, flowVars, layoutVars, selectedMajor, hasUploadedPlan, loading, analysisReport,
                 isAnalyzing, runs, analyses>>

\* The lines one read may complete: an object, the terminal object, text that
\* is no JSON, an unterminated string, a string, a blank line.
LinePool == { <<"oRun">>, <<"oTerm">>, <<"x">>, <<"q", "a">>, <<"q", "a", "q">>, <<"sp">> }

LineKind(line) == IF Trim(line) = <<>> THEN "blank" ELSE JsonParse(line).kind

\* one read completes the lines ls: the for-loop over them; the state after
\* the j-th line is the state after the loop over the first j lines
ReadLines(ls) ==
  /\ Len(handled) + Len(ls) <= MaxDeliver + 1
  /\ LET after == [j \in 0..Len(ls) |-> ApplyParsed(AppState, ParsedOf(SubSeq(ls, 1, j)))]
         s == after[Len(ls)]
     IN /\ processLogs' = s.processLogs /\ currentStep' = s.currentStep
        /\ graphData' = s.graphData /\ isGraphReady' = s.isGraphReady
        /\ handled' = handled \o
             [j \in 1..Len(ls) |->
                [kind |-> LineKind(ls[j]),
                 ev |-> IF LineKind(ls[j]) = "object" THEN JsonObject(Trim(ls[j])[1]) ELSE NoEvent,
                 stage |-> after[j].currentStep, graph |-> after[j].graphData,
                 logs |-> after[j].processLogs]]
  /\ UNCHANGED <<decVars, graphVars, flowVars, layoutVars, selectedMajor, hasUploadedPlan, loading, analysisReport,
                 isAnalyzing, runs, analyses>>

NextEvents ==
  \/ \E e \in EventPool : Deliver(e)
  \/ \E ls \in SeqsUpTo(LinePool, MaxDeliver) \ {<<>>} : ReadLines(ls)

InitE == InitEvents /\ IdleDecoder /\ IdleGraph /\ IdleFlow /\ IdleLayout
SpecEvents == InitE /\ [][NextEvents]_vars

\* --- C12: the terminal event
HasPayload(e) == e.data # NoVal
Terminals == {i \in 1..Len(handled) : handled[i].ev.step_id = 7 /\ HasPayload(handled[i].ev)}
\* the events whose handling changed the stored payload
GraphBefore(i) == IF i = 1 THEN Null ELSE handled[i - 1].graph
Stores == {i \in 1..Len(handled) : handled[i].graph # GraphBefore(i)}

\* C12: when exactly one handled event has step_id 7 and a payload, the
\* payload was stored by that event and by no other, it is that event's
\* data, and the stage right after that event is 4; an event with step_id 7
\* and no payload leaves stage 4 and the stored payload as it was.
C12_TerminalEventStoresOnce ==
  /\ Cardinality(Terminals) = 1 =>
       LET t == CHOOSE i \in Terminals : TRUE IN
         /\ Stores = {t}
         /\ graphData = handled[t].ev.data /\ handled[t].graph = handled[t].ev.data
         /\ handled[t].stage = 4
  /\ \A i \in 1..Len(handled) :
       (handled[i].ev.step_id = 7 /\ ~HasPayload(handled[i].ev))
         => handled[i].stage = 4 /\ handled[i].graph = GraphBefore(i)

\* A sequence with one terminal event, after an event of a lower step.
C12_Witness ==
  /\ Len(handled) = 3
  /\ handled[2].ev.step_id = 3
  /\ handled[3].ev.step_id = 7 /\ HasPayload(handled[3].ev)
  /\ graphData = "G1" /\ currentStep = 4

\* ------------------------------------------------------------------ more claims on the App
NoLiveRun == \A q \in DOMAIN runs : runs[q].pc = "done"

\* C13: when the stream request or a read of a run rejects, the stage becomes
\* 0, loading becomes false and no run is left reading; and a run, hence a
\* stream, comes to exist after that only by startGraphGeneration.
C13_StreamFailureEndsRun ==
  [][/\ \A r \in DOMAIN runs :
          StreamFails(r) => (currentStep' = 0 /\ loading' = FALSE /\ NoLiveRun')
     /\ (NoLiveRun /\ ~NoLiveRun') => startGraphGeneration]_vars

\* After a failure: stage 0 and not loading, with the log of the events the
\* failed run had delivered.
C13_Witness ==
  /\ runs # <<>> /\ NoLiveRun
  /\ currentStep = 0 /\ ~loading
  /\ \E i \in 1..Len(processLogs) : processLogs[i].agent_id # "analyze"

\* --- C14: lines that do not parse
\* the stage the claims give for a step_id
StageOfStep(step_id) ==
  CASE step_id \in {1, 2} -> 1 [] step_id \in {3, 4} -> 2
    [] step_id \in {5, 6} -> 3 [] OTHER -> 4

Lines == 2..Len(handled)

\* C14: a line that does not parse as JSON leaves the log, the stage and the
\* payload as the line before it left them, and every object line after it
\* is applied: its event is logged when it has a message and sets its stage
\* when it has a step_id.
C14_MalformedLineIsSkipped ==
  \A i \in Lines :
    handled[i].kind = "error" =>
      /\ handled[i].logs = handled[i - 1].logs
      /\ handled[i].stage = handled[i - 1].stage
      /\ handled[i].graph = handled[i - 1].graph
      /\ \A j \in Lines :
           (j > i /\ handled[j].kind = "object") =>
             /\ Truthy(handled[j].ev.message)
                  => handled[j].logs = Append(handled[j - 1].logs, handled[j].ev)
             /\ handled[j].ev.step_id # 0
                  => handled[j].stage = StageOfStep(handled[j].ev.step_id)

\* A line that is no JSON, then an object line whose event is in the log.
C14_Witness ==
  /\ Len(handled) = 3
  /\ handled[2].kind = "error" /\ handled[3].kind = "object"
  /\ processLogs = Append(handled[2].logs, handled[3].ev)

\* ------------------------------------------------------------------ more claims on the decoder
\* the object texts of the stream that stand alone on a line ended by a newline
TerminatedObjects ==
  {i \in 1..Len(dStream) :
     /\ dStream[i] \in ObjectTexts
     /\ (i = 1 \/ dStream[i - 1] = "nl")
     /\ i < Len(dStream) /\ dStream[i + 1] = "nl"}

\* C15: when the stream has ended, the text after its last newline has
\* produced no record, even when it is a complete object: there are as many
\* object records as object lines ended by a newline, and no more records
\* than newlines.
C15_LeftoverYieldsNoRecord ==
  dDone =>
    /\ Cardinality({i \in 1..Len(dEmitted) : dEmitted[i].kind = "object"})
         = Cardinality(TerminatedObjects)
    /\ Len(dEmitted) <= Cardinality({i \in 1..Len(dStream) : dStream[i] = "nl"})

\* A stream that ended with a complete object after its last newline, and a
\* record before it.
C15_Witness ==
  /\ dDone /\ dBuffer = <<"oRun">>
  /\ dEmitted # <<>>

\* ------------------------------------------------------------------ more claims on the simplifier
\* the ids of the entities of the payload whose name is one of NoiseNames
NoiseIds ==
  {EntitiesOf(rawData)[i].id : i \in {i \in 1..Len(EntitiesOf(rawData)) :
                                     EntitiesOf(rawData)[i].name \in NoiseNames}}

\* C16: no entity whose name is empty after trimming, holds a placeholder
\* phrase or matches the level pattern is an output node, and no output link
\* has such an entity as head or tail.
C16_NoiseIsRemoved ==
  shown =>
    /\ \A k \in 1..Len(display.nodes) : display.nodes[k].name \notin NoiseNames
    /\ \A i \in 1..Len(display.links) :
         display.links[i].head \notin NoiseIds /\ display.links[i].tail \notin NoiseIds

\* A payload with an entity named by the level pattern in digits and a
\* relationship from it, and an output that still has a link.
C16_Witness ==
  /\ shown /\ display.links # <<>>
  /\ \E i \in 1..Len(EntitiesOf(rawData)) :
       /\ EntitiesOf(rawData)[i].name = <<"x", "di", "1", "2", "jiLevel", "x">>
       /\ \E r \in 1..Len(RelationshipsOf(rawData)) :
            RelationshipsOf(rawData)[r].head = EntitiesOf(rawData)[i].id

\* --- C17, C18: the stage of a step
\* C17: the stage an event leaves is fixed by its step_id: 1 for step_id 1
\* and 2, 2 for 3 and 4, 3 for 5 and 6, 4 for 7.
C17_StageIsFunctionOfStep ==
  \A i \in Lines :
    handled[i].kind = "object" =>
      LET step == handled[i].ev.step_id IN
        /\ step \in {1, 2} => handled[i].stage = 1
        /\ step \in {3, 4} => handled[i].stage = 2
        /\ step \in {5, 6} => handled[i].stage = 3
        /\ step = 7 => handled[i].stage = 4

\* An event of step 5 handled after the terminal event: the stage is 3.
C17_Witness ==
  /\ Len(handled) = 3
  /\ handled[2].ev.step_id = 7 /\ HasPayload(handled[2].ev)
  /\ handled[3].ev.step_id = 5 /\ currentStep = 3

\* C18: when an event follows an event with a step_id that is not greater
\* than its own, the stage it leaves is not lower than the stage the earlier
\* event left.
C18_StageFollowsSteps ==
  \A i \in Lines :
    (/\ i > 2
     /\ handled[i - 1].kind = "object" /\ handled[i].kind = "object"
     /\ handled[i - 1].ev.step_id >= 1
     /\ handled[i - 1].ev.step_id <= handled[i].ev.step_id)
      => handled[i].stage >= handled[i - 1].stage

\* Steps 3 then 5: stage 2 then 3.
C18_Witness ==
  /\ Len(handled) = 3
  /\ handled[2].ev.step_id = 3 /\ handled[3].ev.step_id = 5
  /\ handled[2].stage = 2 /\ handled[3].stage = 3

\* ------------------------------------------------------------------ agent progress
\* A percentage over the agents seen so far.
agentProgressOverSeen(logs) ==
  LET rt == latestAgentRuntime(logs)
      doneCount == Cardinality({a \in DOMAIN rt : rt[a].status \in {"done", "blocked"}})
      n == Cardinality(DOMAIN rt)
  IN IF n = 0 THEN 0 ELSE (200 * doneCount + n) \div (2 * n)

\* agentProgress: Math.round((doneCount / agentNodes.length) * 100), where
\* doneCount counts the agentNodes whose latestAgentRuntime status is done
\* or blocked; Math.round(x) is floor(x + 1/2)
agentProgress(logs) ==
  LET rt == latestAgentRuntime(logs)
      doneCount == Cardinality({i \in 1..Len(agentNodes) :
                                  /\ agentNodes[i] \in DOMAIN rt
                                  /\ rt[agentNodes[i]].status \in {"done", "blocked"}})
      n == Len(agentNodes)
  IN (200 * doneCount + n) \div (2 * n)

\* --- C19, C20
\* the pipeline agents whose last agent_status entry in the log says done or
\* blocked
FinishedAgents(logs) ==
  {a \in {"start", "src-1", "src-2", "src-3", "src-4", "verify", "build",
          "graph-1", "graph-2", "graph-3", "end", "analyze"} :
     \E i \in 1..Len(logs) :
       /\ logs[i].event_type = "agent_status" /\ logs[i].agent_id = a
       /\ logs[i].agent_status \in {"done", "blocked"}
       /\ \A j \in (i + 1)..Len(logs) :
            ~(logs[j].event_type = "agent_status" /\ logs[j].agent_id = a)}

\* C19: after every update the progress is 100 * k / 12 rounded to the
\* nearest integer, k the number of the 12 pipeline agents whose latest
\* status in the log is done or blocked; it lies between 0 and 100.
C19_ProgressOverTwelveAgents ==
  LET p == agentProgress(processLogs)
      k == Cardinality(FinishedAgents(processLogs))
  IN /\ 100 * k - 6 < 12 * p /\ 12 * p <= 100 * k + 6
     /\ p \in 0..100

\* Five finished agents and an agent outside the twelve in the log: 42.
C19_Witness ==
  /\ Len(handled) > 1
  /\ Cardinality(FinishedAgents(processLogs)) = 5
  /\ \E i \in 1..Len(processLogs) : processLogs[i].agent_id = "zz"
  /\ agentProgress(processLogs) = 42

\* C20 (as claimed): an event that names an agent outside the twelve is
\* appended to the log and leaves the progress as it was, and the events
\* after it are applied.
C20_UnknownAgentIsLogged ==
  \A i \in Lines :
    (/\ handled[i].kind = "object"
     /\ handled[i].ev.agent_id # NoVal
     /\ \A n \in 1..Len(agentNodes) : agentNodes[n] # handled[i].ev.agent_id)
      => /\ handled[i].logs = Append(handled[i - 1].logs, handled[i].ev)
         /\ agentProgress(handled[i].logs) = agentProgress(handled[i - 1].logs)
         /\ \A j \in Lines :
              (j > i /\ handled[j].kind = "object" /\ handled[j].ev.step_id # 0)
                => handled[j].stage = StageOfStep(handled[j].ev.step_id)

\* ------------------------------------------------------------------ SpecFlow
\* ProcessFlow under the props the App gives it: a run has just started
\* (stage 1, empty log), the stream delivers events, the interval ticks.
MaxTick == 2
MaxFlowLog == 2

\* stepThreshold of the node of an agent id
stepThreshold(id) ==
  CASE id \in {"start", "src-1", "src-2", "src-3", "src-4"} -> 1
    [] id = "verify" -> 2
    [] id \in {"build", "graph-1", "graph-2", "graph-3"} -> 3
    [] id = "end" -> 4
    [] id = "analyze" -> 5

\* nodes.filter((n) => n.stepThreshold === currentStep)
runningCandidates(step) == SelectSeq(agentNodes, LAMBDA id : stepThreshold(id) = step)

\* the effect on [tick, runningCandidates.length], once it has run
runningAgentPointer(step, t) ==
  IF runningCandidates(step) = <<>> THEN 0 ELSE t % Len(runningCandidates(step))

runningNodeIds(step, t) ==
  LET c == runningCandidates(step) IN
    IF c = <<>> THEN {}
    ELSE IF Len(c) = 1 THEN {c[1]}
    ELSE {c[runningAgentPointer(step, t) + 1]}

\* agentRuntimeMap of ProcessFlow: the same fold as latestAgentRuntime
agentRuntimeMap(logs) == latestAgentRuntime(logs)

getNodeRuntimeStatus(id, step, logs, t) ==
  LET rt == agentRuntimeMap(logs) IN
    IF id \in DOMAIN rt /\ rt[id].status \in {"done", "running", "blocked", "waiting"}
      THEN rt[id].status
    ELSE IF step <= 0 THEN "idle"
    ELSE IF step > stepThreshold(id) THEN "done"
    ELSE IF step < stepThreshold(id) THEN "idle"
    ELSE IF id \in runningNodeIds(step, t) THEN "running" ELSE "waiting"

\* the state right after startGraphGeneration
InitFlow ==
  /\ selectedMajor = "cs" /\ hasUploadedPlan = TRUE /\ loading = TRUE
  /\ currentStep = 1 /\ graphData = Null /\ analysisReport = Null
  /\ processLogs = <<>>
  /\ isGraphReady = FALSE /\ isAnalyzing = FALSE
  /\ runs = <<[NewRun EXCEPT !.pc = "read"]>> /\ analyses = 0
  /\ tick = 0

\* setTick((v) => v + 1)
Tick ==
  /\ tick < MaxTick
  /\ tick' = tick + 1
  /\ UNCHANGED <<appVars, decVars, graphVars, evVars, layoutVars>>

\* the stream delivers the object e: the props of ProcessFlow change
FlowDeliver(e) ==
  /\ LET s == ApplyEvent(AppState, e) IN
       /\ Len(s.processLogs) <= MaxFlowLog
       /\ processLogs' = s.processLogs /\ currentStep' = s.currentStep
       /\ graphData' = s.graphData /\ isGraphReady' = s.isGraphReady
  /\ UNCHANGED <<decVars, graphVars, evVars, flowVars, layoutVars, selectedMajor, hasUploadedPlan, loading,
                 analysisReport, isAnalyzing, runs, analyses>>

NextFlow ==
  \/ Tick
  \/ \E e \in EventPool : FlowDeliver(e)

InitF == InitFlow /\ IdleDecoder /\ IdleGraph /\ IdleEvents /\ IdleLayout
SpecFlow == InitF /\ [][NextFlow]_vars

\* C21 (as claimed): an agent is displayed as running only if the latest
\* event for that agent has status running.
C21_RunningOnlyByEvent ==
  \A n \in 1..Len(agentNodes) :
    getNodeRuntimeStatus(agentNodes[n], currentStep, processLogs, tick) = "running"
      => \E i \in 1..Len(processLogs) :
           /\ processLogs[i].event_type = "agent_status"
           /\ processLogs[i].agent_id = agentNodes[n]
           /\ processLogs[i].agent_status = "running"
           /\ \A j \in (i + 1)..Len(processLogs) :
                ~(processLogs[j].event_type = "agent_status"
                    /\ processLogs[j].agent_id = agentNodes[n])

\* ------------------------------------------------------------------ runs and resets
LiveRuns == {r \in DOMAIN runs : Live(r)}

\* C22: at any time at most one run is between its start and the end of its
\* stream loop.
C22_AtMostOneLiveRun == Cardinality(LiveRuns) <= 1

\* A second run reading its stream, with a payload stored and a major and a
\* plan selected, after a first run that has ended.
C22_Witness ==
  /\ Len(runs) = 2 /\ runs[1].pc = "done" /\ runs[2].pc = "read"
  /\ graphData # Null /\ selectedMajor # "" /\ hasUploadedPlan

EmptyAtStage(n) ==
  /\ processLogs' = <<>> /\ graphData' = Null /\ analysisReport' = Null
  /\ isGraphReady' = FALSE /\ currentStep' = n

\* C23: the step that starts a run leaves the log empty, no payload, no
\* report, the ready flag false and the stage 1; the step of a reset (the
\* reset button or the choice of a major) leaves the same with stage 0.
C23_NewRunStartsEmpty ==
  [][/\ Len(runs') = Len(runs) + 1 => EmptyAtStage(1)
     /\ (ResetButton \/ handleMajorClick("cs")) => EmptyAtStage(0)]_vars

\* A second run just started, after a first run that has ended.
C23_Witness ==
  /\ Len(runs) = 2 /\ runs[1].pc = "done" /\ runs[2].pc = "stats"
  /\ currentStep = 1 /\ processLogs = <<>> /\ graphData = Null /\ analyses = 0

\* ------------------------------------------------------------------ analysis
\* C24: an analysis request is made only with a payload held and sets the
\* stage to 5; the step in which an analysis resolves, with a report or
\* with a failure, leaves the stage as it was.
C24_AnalysisSetsStageFive ==
  [][/\ analyses' = analyses + 1 => (graphData # Null /\ currentStep' = 5)
     /\ analyses' = analyses - 1 => currentStep' = currentStep]_vars

\* An analysis has failed and the stage is still 5.
C24_Witness ==
  /\ analyses = 0 /\ ~isAnalyzing /\ currentStep = 5 /\ graphData # Null
  /\ processLogs # <<>>
  /\ processLogs[Len(processLogs)] = AnalyzeEntry("blocked", "a3")

\* ------------------------------------------------------------------ order of events
\* the events of the lines 2..i that the loop recorded, in line order
RECURSIVE RecordedUpTo(_)
RecordedUpTo(i) ==
  IF i < 2 THEN <<>>
  ELSE RecordedUpTo(i - 1) \o
         (IF handled[i].kind = "object" /\ Truthy(handled[i].ev.message)
            THEN <<handled[i].ev>> ELSE <<>>)

\* the lines up to i whose event carries a step_id
StepLines(i) == {j \in 2..i : handled[j].kind = "object" /\ handled[j].ev.step_id # 0}

\* C25: after every line the log is the log the stream opened with followed
\* by the recorded events of the lines so far, in the order of their lines,
\* and the stage is the stage of the last line so far that carries a
\* step_id (the stage the stream opened with when there is none).
C25_EventsAppliedInArrivalOrder ==
  \A i \in 1..Len(handled) :
    /\ handled[i].logs = handled[1].logs \o RecordedUpTo(i)
    /\ handled[i].stage =
         IF StepLines(i) = {} THEN handled[1].stage
         ELSE StageOfStep(handled[CHOOSE j \in StepLines(i) : \A k \in StepLines(i) : k <= j].ev.step_id)
    /\ (i = Len(handled) => processLogs = handled[i].logs /\ currentStep = handled[i].stage)

\* Two different recorded events, the later one of a lower step.
C25_Witness ==
  /\ Len(handled) = 3 /\ handled[1].logs # <<>>
  /\ handled[2].ev.step_id = 7 /\ Truthy(handled[2].ev.message)
  /\ handled[3].ev.step_id = 4 /\ Truthy(handled[3].ev.message)
  /\ currentStep = 2

\* ------------------------------------------------------------------ replay
\* {...data, timestamp: new Date().toLocaleTimeString()}: the entry the loop
\* records for the object d when the clock reads t
Stamped(d, t) ==
  [f \in DOMAIN d \cup {"timestamp"} |-> IF f = "timestamp" THEN t ELSE d[f]]

\* the state startGraphGeneration leaves: the reducer of a fresh run
FreshState == [processLogs |-> <<>>, currentStep |-> 1, graphData |-> Null, isGraphReady |-> FALSE]

\* the clock readings of one replay: one reading per line
Clocks == [1..(MaxDeliver + 1) -> {1, 2}]

\* the loop body over the lines 2..i of the stream, from a fresh reducer,
\* under the clock readings clock
RECURSIVE Replay(_, _)
Replay(i, clock) ==
  IF i < 2 THEN FreshState
  ELSE LET s == Replay(i - 1, clock) IN
         IF handled[i].kind = "object"
           THEN ApplyEvent(s, Stamped(handled[i].ev, clock[i]))
           ELSE s

\* C26: two replays of the lines of a stream from a fresh reducer, whatever
\* the clock reads while each runs, end with the same stage and the same
\* agent-status map.
C26_ReplayIsDeterministic ==
  LET Outcome(c) == LET a == Replay(Len(handled), c)
                    IN <<a.currentStep, latestAgentRuntime(a.processLogs)>>
      first == Outcome([i \in 1..(MaxDeliver + 1) |-> 1])
  IN \A c \in Clocks : Outcome(c) = first

\* Two agent events were recorded, and two replays of them differ in their
\* logs (by the recorded times) while an agent has a status.
C26_Witness ==
  /\ Len(handled) = 3
  /\ handled[2].ev.agent_id = "src-1" /\ handled[3].ev.agent_id = "end"
  /\ \E c1 \in Clocks : \E c2 \in Clocks :
       LET a == Replay(3, c1)
           b == Replay(3, c2)
       IN /\ Len(a.processLogs) = 2 /\ a.processLogs # b.processLogs
          /\ DOMAIN latestAgentRuntime(a.processLogs) = {"src-1", "end"}
          /\ a.currentStep = 4

\* ------------------------------------------------------------------ the log
IsPrefix(s, t) == Len(s) <= Len(t) /\ SubSeq(t, 1, Len(s)) = s

\* C27: every step that is neither a reset (the reset button, the choice of
\* a major) nor the start of a run leaves the log it found as a prefix of the
\* log it leaves: entries are added at the end, none is altered or removed.
C27_LogIsAppendOnly ==
  [][\/ ResetButton \/ handleMajorClick("cs") \/ Len(runs') = Len(runs) + 1
     \/ IsPrefix(processLogs, processLogs')]_vars

\* A log of a stream event, an analysis request and its outcome.
C27_Witness ==
  /\ Len(processLogs) = 3
  /\ processLogs[1].agent_id = "end"
  /\ processLogs[2] = AnalyzeEntry("running", "a1")
  /\ processLogs[3] = AnalyzeEntry("done", "a2")

\* ------------------------------------------------------------------ the empty graph
\* C28: when no entity of the payload passes the noise filter (the payload
\* has no entities, lacks the field, or every name is noisy), the rendered
\* graph has no nodes and no links, whatever the relationships are.
C28_NothingSurvivesGivesEmptyGraph ==
  (shown /\ (ValidAt = {} \/ \A i \in 1..Len(EntitiesOf(rawData)) :
                                 EntitiesOf(rawData)[i].name \in NoiseNames))
    => display = [nodes |-> <<>>, links |-> <<>>]

\* Rendered payloads with relationships and no surviving entity: one whose
\* entities are all noisy, one that lacks the entities field.
C28_Witness ==
  /\ shown /\ ValidAt = {} /\ RelationshipsOf(rawData) # <<>>
  /\ \/ EntitiesOf(rawData) # <<>>
     \/ "entities" \notin DOMAIN rawData

\* ------------------------------------------------------------------ layout parameters
\* the kinds relLimit lists
relLimitKinds == {"TARGETS_JOB", "OFFERED_BY", "INCLUDES_SKILL", "SUPPORTS_CAPABILITY",
                  "REQUIRES_QUALITY", "CULTIVATES_CAPABILITY"}

\* the last return of the distance callback
FallbackDistance == 75

\* d3Force('link')?.distance((l) => { if (l.relation === ...) return ...; return 75; })
linkDistance(l) ==
  CASE l.relation = "TARGETS_JOB" -> 80
    [] l.relation = "OFFERED_BY" -> 60
    [] l.relation = "INCLUDES_SKILL" -> 85
    [] l.relation = "REQUIRES_QUALITY" -> 90
    [] l.relation = "SUPPORTS_CAPABILITY" -> 95
    [] OTHER -> FallbackDistance

\* d3Force('charge')?.strength(-180), set again for every graph rendered
chargeStrength(graph) == 0 - 180

\* C29 (as claimed): in a rendered graph a link of a kind relLimit lists has
\* a target length that no link of another kind has, links of one kind have
\* one length, a link of any other kind has the fallback length, and the
\* repulsive strength is the strength set for the empty graph.
C29_EachKindHasItsOwnLength ==
  shown =>
    /\ \A i, j \in 1..Len(display.links) :
         LET a == display.links[i]
             b == display.links[j]
         IN /\ a.relation = b.relation => linkDistance(a) = linkDistance(b)
            /\ (a.relation \in relLimitKinds /\ a.relation # b.relation)
                 => linkDistance(a) # linkDistance(b)
            /\ a.relation \notin relLimitKinds => linkDistance(a) = FallbackDistance
    /\ chargeStrength(display) = chargeStrength([nodes |-> <<>>, links |-> <<>>])

\* ------------------------------------------------------------------ accepted links
\* keptIds of buildDisplayGraph for the payload
KeptIdsOf(raw) ==
  LET rawNodes == SelectSeq(EntitiesOf(raw), LAMBDA n : ~isNoiseNodeName(n.name))
      validNodeIds == IdsOf(rawNodes)
      rawLinks == SelectSeq(RelationshipsOf(raw),
                            LAMBDA l : l.head \in validNodeIds /\ l.tail \in validNodeIds)
      degree == DegreeMap(validNodeIds, rawLinks)
  IN IdsOf(SelectSeq(rawNodes, LAMBDA n : n.type \in coreTypes))
       \cup IdsOf(TopByDegree(rawNodes, "Job", degree, JobQuota))
       \cup IdsOf(TopByDegree(rawNodes, "Company", degree, CompanyQuota))

\* the triples of s without the later occurrences of a triple
FirstOccurrences(s) ==
  LET firstAt == {i \in 1..Len(s) : \A j \in 1..(i - 1) : s[j] # s[i]}
  IN [n \in 1..Cardinality(firstAt) |->
        s[CHOOSE i \in firstAt : Cardinality({j \in firstAt : j < i}) = n - 1]]

Take(s, n) == IF Len(s) <= n THEN s ELSE SubSeq(s, 1, n)

TriplesOf(rels) == [i \in 1..Len(rels) |-> RelTriple(rels[i])]

\* C30 (as claimed): for every relation kind of the payload, the links of
\* that kind are, in order, the first ClaimedCeiling(kind) distinct triples
\* of that kind, in input order, among the relationships both of whose
\* endpoints are kept; a repeated triple takes none of the ceiling.
C30_FirstDistinctTriplesAccepted ==
  shown =>
    LET kept == KeptIdsOf(rawData)
        rels == RelationshipsOf(rawData)
    IN \A kind \in {rels[i].relation : i \in 1..Len(rels)} :
         LET eligible == SelectSeq(rels, LAMBDA r : r.relation = kind
                                              /\ r.head \in kept /\ r.tail \in kept)
             first == FirstOccurrences(TriplesOf(eligible))
             got == SelectSeq(display.links, LAMBDA l : l.relation = kind)
         IN [i \in 1..Len(got) |-> LinkTriple(got[i])] = Take(first, ClaimedCeiling(kind))

\* ------------------------------------------------------------------ the type quotas
\* the entities of a type that pass the noise filter, by position
TypeAt(type) == {i \in ValidAt : EntitiesOf(rawData)[i].type = type}

\* their undirected degree over the relationships between entities that pass
\* the filter
TypeDegree(type) ==
  LET valid == ValidIds
      rels == RelationshipsOf(rawData)
      R == {i \in 1..Len(rels) : rels[i].head \in valid /\ rels[i].tail \in valid}
      Deg(id) == Cardinality({i \in R : rels[i].head = id})
                   + Cardinality({i \in R : rels[i].tail = id})
      deg == [i \in TypeAt(type) |-> Deg(EntitiesOf(rawData)[i].id)]
  IN IF deg = deg THEN deg ELSE deg

\* the positions of the quota entities of highest degree, ties by position
TopAt(deg, quota) ==
  LET Beats(k, i) == deg[k] > deg[i] \/ (deg[k] = deg[i] /\ k < i)
  IN {i \in DOMAIN deg : Cardinality({k \in DOMAIN deg : Beats(k, i)}) < quota}

NodesOfType(type) == {k \in 1..Len(display.nodes) : display.nodes[k].type = type}

\* the output respects the quota of a type
WithinQuota(type, quota) ==
  LET deg == TypeDegree(type)
      topIds == {EntitiesOf(rawData)[i].id : i \in TopAt(deg, quota)}
      outside == {EntitiesOf(rawData)[i].id : i \in DOMAIN deg \ TopAt(deg, quota)}
  IN /\ Cardinality(NodesOfType(type)) <= quota
     /\ \A k \in NodesOfType(type) : display.nodes[k].id \in topIds
     /\ \A i \in 1..Len(display.links) :
          display.links[i].source \notin outside \ topIds
            /\ display.links[i].target \notin outside \ topIds

MaxGraphRefs == 3
MaxWidth == 2
MaxApplied == 3

GraphRefs == 1..MaxGraphRefs

\* The first render of a container (dimensions {0, 0}: the renderer is not
\* in the output, graphRef.current is unset) and its two effects:
\* updateDimensions measures the container and sets the state; the force
\* effect returns at "if (!graphRef.current) return".
MountContainer(d, w) ==
  /\ containerData' = d /\ dimensions' = w
  /\ graphRef' = FALSE /\ stale' = TRUE /\ applied' = <<>>

InitLayout == \E d \in GraphRefs : \E w \in 0..MaxWidth :
  /\ containerData = d /\ dimensions = w
  /\ graphRef = FALSE /\ stale = TRUE /\ applied = <<>>

\* the renderer is in the output of a render exactly when dimensions.width > 0
Mounted(w) == w > 0

\* useEffect(..., [graphData]): after a commit the effect runs when the
\* graph reference changed
ForceEffectRuns(changed) == changed

\* the parameters set on the renderer after a render showing graph d;
\* a renderer that left the output loses what was set on it
AppliedAfter(d, changed) ==
  LET kept == IF graphRef /\ Mounted(dimensions) THEN applied ELSE <<>>
  IN IF ForceEffectRuns(changed) /\ Mounted(dimensions) THEN Append(kept, d) ELSE kept

\* the render a state update (setDimensions) asked for: the data prop is
\* the same
Rerender ==
  /\ containerData # 0 /\ stale
  /\ graphRef' = Mounted(dimensions) /\ stale' = FALSE
  /\ applied' = AppliedAfter(containerData, FALSE)
  /\ Len(applied') <= MaxApplied
  /\ UNCHANGED <<containerData, dimensions, appVars, decVars, graphVars, evVars, flowVars>>

\* the parent renders the container with another data reference
NewData(d) ==
  /\ containerData # 0 /\ d # containerData
  /\ containerData' = d
  /\ graphRef' = Mounted(dimensions) /\ stale' = FALSE
  /\ applied' = AppliedAfter(d, TRUE)
  /\ Len(applied') <= MaxApplied
  /\ UNCHANGED <<dimensions, appVars, decVars, graphVars, evVars, flowVars>>

\* the ResizeObserver callback: updateDimensions
Resize(w) ==
  /\ containerData # 0 /\ w # dimensions
  /\ dimensions' = w /\ stale' = TRUE
  /\ UNCHANGED <<containerData, graphRef, applied, appVars, decVars, graphVars, evVars, flowVars>>

\* graphData became null and then a payload again: the parent unmounts the
\* container and mounts a new one
Remount(d, w) ==
  /\ containerData # 0
  /\ MountContainer(d, w)
  /\ UNCHANGED <<appVars, decVars, graphVars, evVars, flowVars>>

NextLayout ==
  \/ Rerender
  \/ \E d \in GraphRefs : NewData(d)
  \/ \E w \in 0..MaxWidth : Resize(w)
  \/ \E d \in GraphRefs : \E w \in 0..MaxWidth : Remount(d, w)

InitL == InitApp /\ IdleDecoder /\ IdleGraph /\ IdleEvents /\ IdleFlow /\ InitLayout
SpecLayout == InitL /\ [][NextLayout]_vars

\* C32 (as claimed): whenever a mounted renderer shows a graph and no render
\* is pending, the force parameters were last set for that graph, the first
\* graph of a container included; and the parameters are set only in a step
\* that changes the graph reference or mounts a container.
C32_ParametersFollowGraph ==
  /\ (graphRef /\ ~stale) => (applied # <<>> /\ applied[Len(applied)] = containerData)
  /\ \A i \in 1..(Len(applied) - 1) : applied[i] # applied[i + 1]

\* ------------------------------------------------------------------ the end of a run
\* a request of run r resolves or rejects, or its stream ends or fails
RunProgress ==
  \E r \in 1..MaxRuns :
    StatsReturn(r) \/ StatsFails(r) \/ StreamOpens(r) \/ StreamFails(r) \/ ReadDone(r)

\* The App when every request of a run is answered and every stream ends
\* or fails: no await of startGraphGeneration stays pending for ever.
SpecStreamEnds == Init /\ [][Next]_vars /\ WF_vars(RunProgress)

\* C33: loading is true exactly while a run is between its start and the end
\* of its loop, and when every stream ends or fails, a run that is loading
\* comes to an end: loading becomes false.
C33_LoadingEndsWithTheLoop ==
  /\ [](loading <=> LiveRuns # {})
  /\ (loading ~> ~loading)

\* A run has read its stream to the terminal event and ended: loading is
\* false again.
C33_Witness ==
  /\ runs # <<>> /\ NoLiveRun /\ ~loading
  /\ currentStep = 4 /\ graphData # Null

\* ------------------------------------------------------------------ events of other types
\* an event that is no agent status event: another event_type, or no agent_id
NotAgentStatus(e) == e.event_type # "agent_status" \/ ~Truthy(e.agent_id)

\* C34: an event whose event_type is not agent_status, or that has no
\* agent_id, leaves the agent-status map of the activity panel, that of the
\* flow panel and the progress percentage as the line before it left them.
C34_OtherEventsLeaveStatusMap ==
  \A i \in Lines :
    (handled[i].kind = "object" /\ NotAgentStatus(handled[i].ev)) =>
      /\ latestAgentRuntime(handled[i].logs) = latestAgentRuntime(handled[i - 1].logs)
      /\ agentRuntimeMap(handled[i].logs) = agentRuntimeMap(handled[i - 1].logs)
      /\ agentProgress(handled[i].logs) = agentProgress(handled[i - 1].logs)

\* src-1 is running, then a log event that names src-1 as done is recorded.
C34_Witness ==
  /\ Len(handled) = 3
  /\ handled[2].ev.agent_id = "src-1" /\ handled[2].ev.agent_status = "running"
  /\ handled[2].ev.event_type = "agent_status" /\ Truthy(handled[2].ev.message)
  /\ handled[3].ev = Ev("log", 2, "src-1", "done", "m7", NoVal)
  /\ Len(handled[3].logs) = Len(handled[2].logs) + 1
  /\ latestAgentRuntime(processLogs)["src-1"].status = "running"

\* ------------------------------------------------------------------ late analysis responses
\* An analysis is requested only while a payload is held, and only a reset,
\* the choice of a major or the start of a run clears the payload: with no
\* payload held, a pending analysis was requested before the last of those.
\* C35 (as claimed): the step in which such an analysis resolves, with a
\* report or with a failure, leaves the report and the log as they were.
C35_LateAnalysisIsInert ==
  [][(analyses > 0 /\ graphData = Null /\ analyses' = analyses - 1)
       => UNCHANGED <<analysisReport, processLogs>>]_vars

\* ------------------------------------------------------------------ payload, flag and stage
\* C36 (as claimed): whenever a payload is held the stage is 4 or 5.
C36_PayloadHeldAtStageFourOrFive ==
  graphData # Null => currentStep \in {4, 5}

\* C37: the graph-ready flag is true exactly when a payload is held.
C37_ReadyFlagFollowsPayload ==
  isGraphReady <=> graphData # Null

\* A payload is held and the flag is true in a second run, after the first
\* run's payload and flag were cleared.
C37_Witness ==
  /\ Len(runs) = 2 /\ graphData # Null /\ isGraphReady

\* C38: the stage is one of 0..5, and it is 5 only while a payload is held.
C38_StageFiveNeedsPayload ==
  /\ currentStep \in 0..5
  /\ currentStep = 5 => graphData # Null

\* Stage 5 with a payload held and the analysis answered with a report.
C38_Witness ==
  /\ currentStep = 5 /\ graphData # Null /\ analysisReport # Null /\ analyses = 0

\* ------------------------------------------------------------------ the executing agent
\* runningAgent: the agent-status entries are scanned from the newest to the
\* oldest; the first one found with status running names the agent, looked up
\* in agentNodes (find gives undefined for an id that is no pipeline agent);
\* with no running entry the result is null
runningAgent(logs) ==
  LET al == AgentLogs(logs)
      R == {i \in 1..Len(al) : al[i].agent_status = "running"}
  IN IF R = {} THEN NoVal
     ELSE LET last == CHOOSE i \in R : \A j \in R : j <= i IN
            IF \E n \in 1..Len(agentNodes) : agentNodes[n] = al[last].agent_id
              THEN al[last].agent_id
              ELSE NoVal

\* C39: the agent the header names as executing has running as its latest
\* status in the agent-status map; an agent whose latest event is done or
\* blocked is not named.
C39_NamedAgentIsRunning ==
  \A i \in 1..Len(handled) :
    LET a == runningAgent(handled[i].logs) IN
      a # NoVal => latestAgentRuntime(handled[i].logs)[a].status = "running"

\* ------------------------------------------------------------------ entities outside the type vocabulary
\* the seven types of the vocabulary: the core types, Job and Company
RecognizedTypes == coreTypes \cup {"Job", "Company"}

\* the entities of the payload whose type is absent or outside the vocabulary
Unrecognized ==
  LET es == EntitiesOf(rawData) IN
    {es[i] : i \in {j \in 1..Len(es) : es[j].type \notin RecognizedTypes}}

\* no entity outside the vocabulary is an output node or the endpoint of an
\* output link
NoUnrecognizedInOutput ==
  \A e \in Unrecognized :
    /\ \A k \in 1..Len(display.nodes) : display.nodes[k] # e
    /\ \A i \in 1..Len(display.links) :
         display.links[i].source # e.id /\ display.links[i].target # e.id

\* C40 (as claimed): for every payload, an entity whose type is none of the
\* seven recognized types is no output node and no endpoint of an output
\* link.
C40_UnrecognizedNeverShown ==
  shown => NoUnrecognizedInOutput

\* C40 (amended): for every payload whose entity ids are distinct, an entity
\* whose type is absent or none of the seven recognized types, whatever its
\* category, is no output node and no endpoint of an output link.
C40_UnrecognizedNeverShownOnDistinctIds ==
  (shown /\ DistinctIds(EntitiesOf(rawData))) => NoUnrecognizedInOutput

\* A payload with distinct ids that holds an entity with no type and a known
\* category, named by a relationship of a listed kind from a core, and the
\* output has links.
C40_Witness ==
  /\ shown /\ DistinctIds(EntitiesOf(rawData))
  /\ \E e \in Unrecognized :
       /\ e.type = NoVal /\ e.category = "Core"
       /\ \E i \in 1..Len(RelationshipsOf(rawData)) :
            /\ RelationshipsOf(rawData)[i].tail = e.id
            /\ RelationshipsOf(rawData)[i].relation = "INCLUDES_SKILL"
  /\ display.links # <<>>

====
